---- MODULE Spec2Model ----
(***************************************************************************)
(* The command registry of the UI framework (src/src/ui/index.ts, class    *)
(* CommandRegistry and its singleton): a Map from command name to          *)
(* {handler, metadata}, with register / plugin / execute / has /           *)
(* getMetadata / list / getAll / unregister / clear.                       *)
(*                                                                         *)
(* A JavaScript Map keeps its keys in insertion order; set() on a present  *)
(* key replaces the value in place, delete() removes the key.  The Map is  *)
(* modelled as a sequence of [key, value] records with distinct keys.      *)
(* An optional value (T | undefined) is a sequence of length at most one:  *)
(* <<>> is undefined, <<v>> is v.                                          *)
(***************************************************************************)
EXTENDS Integers, Sequences, FiniteSets, TLC

VARIABLES commands, execs, last, hist, env

vars == <<commands, execs, last, hist, env>>

(***************************************************************************)
(* Bounds of the model.                                                    *)
(***************************************************************************)
\* number of execute calls that may be suspended at their await at once
MaxInFlight == 1
\* number of entries of a plugin object passed to plugin()
MaxPluginLen == 2
\* number of execute calls in flight at once where concurrent calls are studied
MaxConcurrent == 2

(***************************************************************************)
(* Strings.                                                                *)
(***************************************************************************)
Contains(s, t) ==
  \E i \in 1..(Len(s) - Len(t) + 1) : SubSeq(s, i, i + Len(t) - 1) = t

StartsWith(s, t) == Len(s) >= Len(t) /\ SubSeq(s, 1, Len(t)) = t

\* Array.prototype.join
RECURSIVE Join(_, _)
Join(list, sep) ==
  IF Len(list) = 0 THEN ""
  ELSE IF Len(list) = 1 THEN list[1]
  ELSE list[1] \o sep \o Join(Tail(list), sep)

(***************************************************************************)
(* The Map<string, CommandEntry>.                                          *)
(***************************************************************************)
MapHas(m, k) == \E i \in DOMAIN m : m[i].key = k

MapIndex(m, k) == CHOOSE i \in DOMAIN m : m[i].key = k

MapGet(m, k) == IF MapHas(m, k) THEN <<m[MapIndex(m, k)].value>> ELSE <<>>

MapSetAppendAlways(m, k, v) == Append(m, [key |-> k, value |-> v])

MapSetKeepOld(m, k, v) ==
  IF MapHas(m, k) THEN m ELSE Append(m, [key |-> k, value |-> v])

MapSetMoveToEnd(m, k, v) ==
  Append(SelectSeq(m, LAMBDA e : e.key # k), [key |-> k, value |-> v])

MapSet(m, k, v) ==
  IF MapHas(m, k)
  THEN [m EXCEPT ![MapIndex(m, k)] = [key |-> k, value |-> v]]
  ELSE Append(m, [key |-> k, value |-> v])

MapDeleteNothing(m, k) == m

MapDelete(m, k) == SelectSeq(m, LAMBDA e : e.key # k)

MapKeys(m) == [i \in DOMAIN m |-> m[i].key]

MapClear(m) == <<>>

(***************************************************************************)
(* Values.  A number or a string returned by a handler; a value thrown by  *)
(* a handler (an Error, a primitive string, or a plain object that has a   *)
(* message property but is no Error instance).                             *)
(***************************************************************************)
Num(n) == [t |-> "number", num |-> n, str |-> ""]
Str(s) == [t |-> "string", num |-> 0, str |-> s]

ErrorObj(msg) == [t |-> "Error", text |-> msg]
ThrownString(s) == [t |-> "string", text |-> s]
ThrownObject(msg) == [t |-> "object", text |-> msg]

\* String(value) of a thrown value that is no Error instance
StringOf(e) == IF e.t = "object" THEN "[object Object]" ELSE e.text

(***************************************************************************)
(* Handlers.  The registry stores arbitrary functions; the model takes the *)
(* three kinds the tests and the documentation register.                   *)
(***************************************************************************)
Handlers == {"subtract", "throwError", "fetchData"}

Metadata1 ==
  <<[description |-> <<"Add two numbers">>,
     usage |-> <<"calculate <a> <b>">>,
     examples |-> <<<<"calculate 5 3">>>>]>>

Metadata2 ==
  <<[description |-> <<"Multiply two numbers">>,
     usage |-> <<"math:multiply <a> <b>">>,
     examples |-> <<>>]>>

Metadatas == {<<>>, Metadata1}

ArgLists == { <<5, 3>>, <<3, 5>> }

\* what the promise of the asynchronous handler can settle with
AsyncOutcomes(args) ==
  { [type |-> "value", value |-> Str("Async: " \o ToString(args[1])),
     error |-> ErrorObj("")],
    [type |-> "throw", value |-> Num(0), error |-> ErrorObj("fetch failed")],
    [type |-> "throw", value |-> Num(0), error |-> ThrownString("timeout")],
    [type |-> "throw", value |-> Num(0), error |-> ThrownObject("denied")] }

\* handler values that are not functions: a value of another type passed
\* to register, and the undefined that plugin() reads from a value without
\* a handler property
NonCallableHandlers == {"notCallable", "undefined"}

\* the TypeError of calling a value that is not a function (the wording is
\* the engine's)
NotAFunction == ErrorObj("command.handler is not a function")

\* handler(...args): the synchronous part of the call
HandlerCall(h, args) ==
  CASE h = "subtract" ->
         [type |-> "value", value |-> Num(args[1] - args[2]),
          error |-> ErrorObj("")]
    [] h = "throwError" ->
         [type |-> "throw", value |-> Num(0), error |-> ErrorObj("Test error")]
    [] h \in NonCallableHandlers ->
         [type |-> "throw", value |-> Num(0), error |-> NotAFunction]
    [] OTHER ->
         [type |-> "promise", value |-> Num(0), error |-> ErrorObj("")]

\* a handler written as a function expression that reads the object it is
\* called on:  function () { return String(this.metadata?.description) }
ReceiverHandlers == {"describeSelf"}

\* command.handler(...args): a method call, so the stored {handler,
\* metadata} entry is the receiver (this) of the handler
HandlerCallOn(command, args) ==
  IF command.handler \in ReceiverHandlers
  THEN [type |-> "value",
        value |-> Str(IF command.metadata = <<>>
                         \/ command.metadata[1].description = <<>>
                      THEN "undefined"
                      ELSE command.metadata[1].description[1]),
        error |-> ErrorObj("")]
  ELSE HandlerCall(command.handler, args)

(***************************************************************************)
(* Inputs of the operations.                                               *)
(***************************************************************************)
\* names passed to register(), and plugin names
DirectNames == {"add", "m:add"}
PluginNames == {"m"}
\* names passed to execute() and unregister()
QueryNames == {"add", "m:add", "ghost"}
\* keys of the plugin objects: a plain key, an integer-like key, and a key
\* that itself contains the plugin prefix
ShortNames == {"add"}
WideShortNames == {"add", "1", "m:add"}
WideQueryNames == {"add", "m:add", "m:1", "m:m:add", "ghost"}

\* a value of a plugin object: a bare handler, or a {handler, metadata} pair
PluginValues ==
  { [bare |-> TRUE, handler |-> "subtract", metadata |-> <<>>],
    [bare |-> FALSE, handler |-> "fetchData",
     metadata |-> Metadata2] }

\* a plugin object, as the sequence of its properties in the order they
\* were written (property keys are distinct)
PluginObjectsOver(keys, values) ==
  UNION { { o \in [1..n -> [key : keys, value : values]] :
              \A i, j \in 1..n : i # j => o[i].key # o[j].key } :
          n \in 0..MaxPluginLen }

\* plugin names and short names that hold the separator, so that different
\* pairs give the same composite name
CollidePluginNames == {"a", "a:b"}
CollideShortNames == {"c", "b:c"}
CollidePluginObjects == PluginObjectsOver(CollideShortNames, PluginValues)
CollideName == "a:b:c"

\* arguments of help(): none, a name, or the empty string
HelpArgs == {<<>>, <<"add">>, <<"m:add">>, <<"ghost">>, <<"">>}

\* metadata without any field, next to the complete ones
MetadataEmpty == <<[description |-> <<>>, usage |-> <<>>, examples |-> <<>>]>>

\* metadata whose description and usage are the empty string and whose
\* examples are an empty array
MetadataBlank ==
  <<[description |-> <<"">>, usage |-> <<"">>, examples |-> <<<<>>>>]>>

\* metadata with a usage and two examples but no description
MetadataUsageOnly ==
  <<[description |-> <<>>,
     usage |-> <<"add <a> <b>">>,
     examples |-> <<<<"add 1 2", "add 3 4">>>>]>>

HelpMetadatas ==
  {<<>>, Metadata1, Metadata2, MetadataEmpty, MetadataBlank, MetadataUsageOnly}

\* values of a plugin object that are neither a function nor a {handler,
\* metadata} pair: null, which has no properties to read, and a number,
\* whose handler and metadata properties are undefined
NullValue == [bare |-> FALSE, handler |-> "", metadata |-> <<>>]

NumberValue == [bare |-> FALSE, handler |-> "undefined", metadata |-> <<>>]

LoosePluginValues == PluginValues \cup {NullValue, NumberValue}

\* names and short names that include the empty string
LooseNames == {"", "m:add"}

LooseShortNames == {"", "add"}

LoosePluginObjects == PluginObjectsOver(LooseShortNames, LoosePluginValues)

PluginObjects == PluginObjectsOver(ShortNames, PluginValues)

\* plugin objects of up to two commands
PairShortNames == {"add", "1"}

PairPluginObjects == PluginObjectsOver(PairShortNames, PluginValues)

WidePluginObjects == PluginObjectsOver(WideShortNames, PluginValues)

\* the {handler, metadata} pairs registered in the wide registry
WideRegistrations ==
  { [handler |-> "throwError", metadata |-> <<>>],
    [handler |-> "fetchData", metadata |-> Metadata2] }

(***************************************************************************)
(* Object.entries(obj): the own string-keyed properties, integer-like      *)
(* keys (array indices) first in ascending numeric order, then the other   *)
(* keys in the order the properties were created.                          *)
(***************************************************************************)
IndexKeys == 0..9

\* the canonical decimal strings of the array indices, and their values
IndexStrings == {ToString(n) : n \in IndexKeys}

IndexValue == [k \in IndexStrings |-> CHOOSE n \in IndexKeys : ToString(n) = k]

IsArrayIndex(k) == k \in IndexStrings

ArrayIndexOf(k) == IndexValue[k]

RECURSIVE SortByIndex(_)
SortByIndex(ents) ==
  IF ents = {} THEN <<>>
  ELSE LET lo == CHOOSE e \in ents :
                   \A f \in ents : ArrayIndexOf(e.key) <= ArrayIndexOf(f.key)
       IN <<lo>> \o SortByIndex(ents \ {lo})

ObjectEntriesAsWritten(obj) == obj

ObjectEntries(obj) ==
  SortByIndex({obj[i] : i \in {j \in DOMAIN obj : IsArrayIndex(obj[j].key)}})
    \o SelectSeq(obj, LAMBDA e : ~IsArrayIndex(e.key))

(***************************************************************************)
(* CommandRegistry.  Each method is an operator from the Map (and the      *)
(* arguments) to what the method returns and leaves behind.                *)
(***************************************************************************)
hasByMetadata(cmds, name) ==
  MapHas(cmds, name) /\ MapGet(cmds, name)[1].metadata # <<>>

has(cmds, name) == MapHas(cmds, name)

getMetadataOfFirst(cmds, name) ==
  IF MapGet(cmds, name) # <<>> THEN MapGet(cmds, name)[1].metadata
  ELSE IF cmds = <<>> THEN <<>> ELSE cmds[1].value.metadata

getMetadata(cmds, name) ==
  IF MapGet(cmds, name) = <<>> THEN <<>> ELSE MapGet(cmds, name)[1].metadata

list(cmds) == MapKeys(cmds)

getAllReversed(cmds) ==
  [i \in DOMAIN cmds |->
     [name |-> cmds[Len(cmds) + 1 - i].key,
      metadata |-> cmds[Len(cmds) + 1 - i].value.metadata]]

getAll(cmds) ==
  [i \in DOMAIN cmds |-> [name |-> cmds[i].key, metadata |-> cmds[i].value.metadata]]

\* the lines of help(name) for the description, the usage and the examples
\* of a command; a missing or empty value is skipped
DescriptionLine(md) ==
  IF md.description # <<>> /\ md.description[1] # ""
  THEN "Description: " \o md.description[1] \o "\n" ELSE ""

UsageLine(md) ==
  IF md.usage # <<>> /\ md.usage[1] # ""
  THEN "Usage: " \o md.usage[1] \o "\n" ELSE ""

ExamplesBlock(md) ==
  IF md.examples # <<>> /\ Len(md.examples[1]) > 0
  THEN "Examples:\n"
         \o Join([i \in DOMAIN md.examples[1] |-> "  " \o md.examples[1][i]], "\n")
         \o "\n"
  ELSE ""

helpOneUsageFirst(cmds, name) ==
  LET command == MapGet(cmds, name)
  IN IF command = <<>> THEN "Command \"" \o name \o "\" not found."
     ELSE IF command[1].metadata = <<>>
     THEN "Command: " \o name \o "\nNo metadata available."
     ELSE "Command: " \o name \o "\n"
            \o UsageLine(command[1].metadata[1])
            \o DescriptionLine(command[1].metadata[1])
            \o ExamplesBlock(command[1].metadata[1])

\* help(name) for a name that was given
helpOne(cmds, name) ==
  LET command == MapGet(cmds, name)
  IN IF command = <<>> THEN "Command \"" \o name \o "\" not found."
     ELSE IF command[1].metadata = <<>>
     THEN "Command: " \o name \o "\nNo metadata available."
     ELSE "Command: " \o name \o "\n"
            \o DescriptionLine(command[1].metadata[1])
            \o UsageLine(command[1].metadata[1])
            \o ExamplesBlock(command[1].metadata[1])

\* one line of help() per command
RECURSIVE helpLines(_)
helpLines(all) ==
  IF all = <<>> THEN ""
  ELSE "  " \o all[1].name
         \o (IF all[1].metadata # <<>>
                 /\ all[1].metadata[1].description # <<>>
                 /\ all[1].metadata[1].description[1] # ""
              THEN " - " \o all[1].metadata[1].description[1] ELSE "")
         \o "\n" \o helpLines(Tail(all))

helpAllNamesOnly(cmds) ==
  IF Len(getAll(cmds)) = 0 THEN "No commands registered."
  ELSE "Available commands:\n\n"
         \o helpLines([i \in DOMAIN cmds |-> [name |-> cmds[i].key, metadata |-> <<>>]])

\* help() for all commands
helpAll(cmds) ==
  IF Len(getAll(cmds)) = 0 THEN "No commands registered."
  ELSE "Available commands:\n\n" \o helpLines(getAll(cmds))

helpThrowsNotFound(cmds, nameOpt) ==
  IF nameOpt # <<>> /\ nameOpt[1] # ""
  THEN IF MapHas(cmds, nameOpt[1]) THEN helpOne(cmds, nameOpt[1]) ELSE ""
  ELSE helpAll(cmds)

\* help(name?): `if (name)` takes the first branch for a non-empty string
help(cmds, nameOpt) ==
  IF nameOpt # <<>> /\ nameOpt[1] # ""
  THEN helpOne(cmds, nameOpt[1])
  ELSE helpAll(cmds)

registerDropsMetadata(cmds, name, handler, metadata) ==
  [commands |-> MapSet(cmds, name, [handler |-> handler, metadata |-> <<>>]),
   warnings |-> IF MapHas(cmds, name) THEN 1 ELSE 0]

registerKeepsOld(cmds, name, handler, metadata) ==
  [commands |-> MapSetKeepOld(cmds, name, [handler |-> handler, metadata |-> metadata]),
   warnings |-> IF MapHas(cmds, name) THEN 1 ELSE 0]

registerAppends(cmds, name, handler, metadata) ==
  [commands |-> MapSetAppendAlways(cmds, name, [handler |-> handler, metadata |-> metadata]),
   warnings |-> IF MapHas(cmds, name) THEN 1 ELSE 0]

registerMovesToEnd(cmds, name, handler, metadata) ==
  [commands |-> MapSetMoveToEnd(cmds, name, [handler |-> handler, metadata |-> metadata]),
   warnings |-> IF MapHas(cmds, name) THEN 1 ELSE 0]

registerMergesMetadata(cmds, name, handler, metadata) ==
  [commands |-> MapSet(cmds, name,
                       [handler |-> handler,
                        metadata |-> IF metadata = <<>> /\ MapHas(cmds, name)
                                     THEN MapGet(cmds, name)[1].metadata
                                     ELSE metadata]),
   warnings |-> IF MapHas(cmds, name) THEN 1 ELSE 0]

registerChecksHandler(cmds, name, handler, metadata) ==
  [commands |-> IF handler \in NonCallableHandlers THEN cmds
                ELSE MapSet(cmds, name, [handler |-> handler, metadata |-> metadata]),
   warnings |-> IF MapHas(cmds, name) THEN 1 ELSE 0]

registerWarnsAlways(cmds, name, handler, metadata) ==
  [commands |-> MapSet(cmds, name, [handler |-> handler, metadata |-> metadata]),
   warnings |-> 1]

register(cmds, name, handler, metadata) ==
  [commands |-> MapSet(cmds, name, [handler |-> handler, metadata |-> metadata]),
   warnings |-> IF MapHas(cmds, name) THEN 1 ELSE 0]

\* the body of plugin()'s loop over Object.entries(commands)
RECURSIVE pluginLoop(_, _, _)
pluginLoop(acc, pluginName, entries) ==
  IF entries = <<>> THEN acc
  ELSE IF Head(entries).value = NullValue THEN acc
  ELSE LET e == Head(entries)
           fullName == pluginName \o ":" \o e.key
           r == IF e.value.bare
                THEN register(acc.commands, fullName, e.value.handler, <<>>)
                ELSE register(acc.commands, fullName, e.value.handler,
                              e.value.metadata)
       IN pluginLoop([commands |-> r.commands,
                      warnings |-> acc.warnings + r.warnings],
                     pluginName, Tail(entries))

pluginBareNames(cmds, pluginName, obj) ==
  LET RECURSIVE loop(_, _)
      loop(acc, entries) ==
        IF entries = <<>> THEN acc
        ELSE loop(register(acc.commands, Head(entries).key,
                           Head(entries).value.handler, <<>>), Tail(entries))
  IN loop([commands |-> cmds, warnings |-> 0], ObjectEntries(obj))

pluginDropsMetadata(cmds, pluginName, obj) ==
  LET RECURSIVE loop(_, _)
      loop(acc, entries) ==
        IF entries = <<>> THEN acc
        ELSE loop(register(acc.commands, pluginName \o ":" \o Head(entries).key,
                           Head(entries).value.handler, <<>>), Tail(entries))
  IN loop([commands |-> cmds, warnings |-> 0], ObjectEntries(obj))

pluginStopsAfterFirst(cmds, pluginName, obj) ==
  pluginLoop([commands |-> cmds, warnings |-> 0], pluginName,
             IF obj = <<>> THEN <<>> ELSE <<ObjectEntries(obj)[1]>>)

pluginSkipsExisting(cmds, pluginName, obj) ==
  LET RECURSIVE loop(_, _)
      loop(acc, entries) ==
        IF entries = <<>> THEN acc
        ELSE IF MapHas(acc.commands, pluginName \o ":" \o Head(entries).key)
        THEN loop(acc, Tail(entries))
        ELSE loop(pluginLoop(acc, pluginName, <<Head(entries)>>), Tail(entries))
  IN loop([commands |-> cmds, warnings |-> 0], ObjectEntries(obj))

\* whether plugin() throws: reading command.handler of null is a TypeError,
\* which ends the loop at that entry
pluginThrows(obj) == \E i \in DOMAIN obj : obj[i].value = NullValue

plugin(cmds, pluginName, obj) ==
  pluginLoop([commands |-> cmds, warnings |-> 0], pluginName, ObjectEntries(obj))

unregisterAll(cmds, name) ==
  [commands |-> IF MapHas(cmds, name) THEN <<>> ELSE cmds,
   removed |-> MapHas(cmds, name)]

unregisterKeeps(cmds, name) ==
  [commands |-> cmds, removed |-> MapHas(cmds, name)]

unregisterAlwaysTrue(cmds, name) ==
  [commands |-> MapDelete(cmds, name), removed |-> TRUE]

unregister(cmds, name) ==
  [commands |-> MapDelete(cmds, name), removed |-> MapHas(cmds, name)]

clearKeepsFirst(cmds) == IF cmds = <<>> THEN <<>> ELSE <<cmds[1]>>

clear(cmds) == MapClear(cmds)

(***************************************************************************)
(* execute().  An async function runs synchronously up to its first await: *)
(* the lookup and the call of the handler happen at the call of execute,   *)
(* and a throw before the await rejects the promise execute returns.       *)
(* Otherwise execute is suspended at `await command.handler(...args)` on   *)
(* what the handler returned (a value or a promise) and resumes once that  *)
(* has settled.                                                            *)
(***************************************************************************)
NoOutcome == [status |-> "none", value |-> Num(0), error |-> ErrorObj("")]

NotFoundMessageFirstOnly(name, cmds) ==
  "Command \"" \o name \o "\" not found. Available commands: "
    \o (IF cmds = <<>> THEN "" ELSE cmds[1].key)

NotFoundMessage(name, cmds) ==
  "Command \"" \o name \o "\" not found. Available commands: "
    \o Join(list(cmds), ", ")

\* error instanceof Error ? error.message : String(error)
FailureText(error) == IF error.t = "Error" THEN error.text ELSE StringOf(error)

ExecutionErrorMessage(name, error) ==
  "Error executing command \"" \o name \o "\": " \o FailureText(error)

Rejected(msg) == [status |-> "rejected", value |-> Num(0), error |-> ErrorObj(msg)]

Fulfilled(v) == [status |-> "fulfilled", value |-> v, error |-> ErrorObj("")]

Reverse(s) == [i \in DOMAIN s |-> s[Len(s) + 1 - i]]

executeStartSwapsArgs(cmds, name, args) ==
  LET command == MapGet(cmds, name)
  IN IF command = <<>>
     THEN [outcome |-> Rejected(NotFoundMessage(name, cmds)),
           invoked |-> <<>>,
           awaited |-> HandlerCall("throwError", args)]
     ELSE LET r == HandlerCall(command[1].handler, Reverse(args))
          IN [outcome |-> IF r.type = "throw"
                          THEN Rejected(ExecutionErrorMessage(name, r.error))
                          ELSE [NoOutcome EXCEPT !.status = "pending"],
              invoked |-> <<[handler |-> command[1].handler,
                             args |-> Reverse(args)]>>,
              awaited |-> r]

executeStartFirstEntry(cmds, name, args) ==
  LET command == IF cmds = <<>> THEN <<>> ELSE <<cmds[1].value>>
  IN IF command = <<>>
     THEN [outcome |-> Rejected(NotFoundMessage(name, cmds)),
           invoked |-> <<>>,
           awaited |-> HandlerCall("throwError", args)]
     ELSE LET r == HandlerCall(command[1].handler, args)
          IN [outcome |-> IF r.type = "throw"
                          THEN Rejected(ExecutionErrorMessage(name, r.error))
                          ELSE [NoOutcome EXCEPT !.status = "pending"],
              invoked |-> <<[handler |-> command[1].handler, args |-> args]>>,
              awaited |-> r]

executeStartSwallows(cmds, name, args) ==
  LET command == MapGet(cmds, name)
  IN IF command = <<>>
     THEN [outcome |-> Rejected(NotFoundMessage(name, cmds)),
           invoked |-> <<>>,
           awaited |-> HandlerCall("throwError", args)]
     ELSE LET r == HandlerCall(command[1].handler, args)
          IN [outcome |-> IF r.type = "throw"
                          THEN Fulfilled(Num(0))
                          ELSE [NoOutcome EXCEPT !.status = "pending"],
              invoked |-> <<[handler |-> command[1].handler, args |-> args]>>,
              awaited |-> r]

executeStartNoLookupCheck(cmds, name, args) ==
  LET command == IF MapGet(cmds, name) = <<>>
                 THEN <<[handler |-> "subtract", metadata |-> <<>>]>>
                 ELSE MapGet(cmds, name)
      r == HandlerCall(command[1].handler, args)
  IN [outcome |-> IF r.type = "throw"
                  THEN Rejected(ExecutionErrorMessage(name, r.error))
                  ELSE [NoOutcome EXCEPT !.status = "pending"],
      invoked |-> <<[handler |-> command[1].handler, args |-> args]>>,
      awaited |-> r]

\* the part of execute() before the await
executeStart(cmds, name, args) ==
  LET command == MapGet(cmds, name)
  IN IF command = <<>>
     THEN [outcome |-> Rejected(NotFoundMessage(name, cmds)),
           invoked |-> <<>>,
           awaited |-> HandlerCall("throwError", args)]
     ELSE LET r == HandlerCallOn(command[1], args)
          IN [outcome |-> IF r.type = "throw"
                          THEN Rejected(ExecutionErrorMessage(name, r.error))
                          ELSE [NoOutcome EXCEPT !.status = "pending"],
              invoked |-> <<[handler |-> command[1].handler, args |-> args]>>,
              awaited |-> r]

executeResumeCoerces(name, settled) ==
  IF settled.type = "value"
  THEN Fulfilled(Str(IF settled.value.t = "number"
                     THEN ToString(settled.value.num) ELSE settled.value.str))
  ELSE Rejected(ExecutionErrorMessage(name, settled.error))

executeResumeRethrows(name, settled) ==
  IF settled.type = "value"
  THEN Fulfilled(settled.value)
  ELSE IF settled.error.t = "Error"
       THEN Rejected(settled.error.text)
       ELSE Rejected(ExecutionErrorMessage(name, settled.error))

\* the part of execute() after the await: return the result, or catch and wrap
executeResume(name, settled) ==
  IF settled.type = "value"
  THEN Fulfilled(settled.value)
  ELSE Rejected(ExecutionErrorMessage(name, settled.error))

\* what an awaited handler result can settle with
Settlements(exec) ==
  IF exec.awaited.type = "promise"
  THEN AsyncOutcomes(exec.invoked[1].args)
  ELSE {exec.awaited}

(***************************************************************************)
(* Handlers that use the registry.  A handler is application code and may  *)
(* call the exported register / plugin / unregister / clear / execute      *)
(* while it runs.  Each of these handlers makes its registry calls         *)
(* synchronously and then returns a value, throws, or returns the promise  *)
(* of a nested execute.  They are registered under the name "add"; the     *)
(* nested execute goes to "m:add" or to the never registered "ghost".      *)
(***************************************************************************)
ReentrantHandlers ==
  {"registerOther", "replaceSelf", "unregisterSelf", "installPlugin",
   "clearThenThrow", "callOther", "callMissing"}

NoOp == [op |-> "none", name |-> "", handler |-> "", entries |-> <<>>]

\* the registry calls a handler makes, in order
HandlerOps(h) ==
  CASE h = "registerOther" ->
         <<[NoOp EXCEPT !.op = "register", !.name = "m:add", !.handler = "subtract"]>>
    [] h = "replaceSelf" ->
         <<[NoOp EXCEPT !.op = "register", !.name = "add", !.handler = "subtract"]>>
    [] h = "unregisterSelf" ->
         <<[NoOp EXCEPT !.op = "unregister", !.name = "add"]>>
    [] h = "installPlugin" ->
         <<[NoOp EXCEPT !.op = "plugin", !.name = "m",
                        !.entries = <<[key |-> "add",
                                       value |-> [bare |-> TRUE,
                                                  handler |-> "subtract",
                                                  metadata |-> <<>>]]>>]>>
    [] h = "clearThenThrow" -> <<[NoOp EXCEPT !.op = "clear"]>>
    [] OTHER -> <<>>

RegistryOpOnCopy(cmds, o) == cmds

\* one call of an exported registry function on the singleton
RegistryOp(cmds, o) ==
  CASE o.op = "register" -> register(cmds, o.name, o.handler, <<>>).commands
    [] o.op = "unregister" -> unregister(cmds, o.name).commands
    [] o.op = "plugin" -> plugin(cmds, o.name, o.entries).commands
    [] o.op = "clear" -> clear(cmds)
    [] OTHER -> cmds

RECURSIVE RunOps(_, _)
RunOps(cmds, ops) ==
  IF ops = <<>> THEN cmds ELSE RunOps(RegistryOp(cmds, Head(ops)), Tail(ops))

\* how the handler ends after its registry calls: what it returns or
\* throws, or the name whose nested execute it returns
HandlerEnd(h, args) ==
  CASE h \in Handlers -> HandlerCall(h, args)
    [] h = "clearThenThrow" ->
         [type |-> "throw", value |-> Num(0), error |-> ErrorObj("after clear")]
    [] h \in {"callOther", "callMissing"} ->
         [type |-> "execute", value |-> Num(0), error |-> ErrorObj("")]
    [] OTHER ->
         [type |-> "value", value |-> Str("done"), error |-> ErrorObj("")]

NestedTarget(h) == IF h = "callOther" THEN "m:add" ELSE "ghost"

\* a settled promise as what an await on it yields
AsSettlement(outcome) ==
  IF outcome.status = "fulfilled"
  THEN [type |-> "value", value |-> outcome.value, error |-> ErrorObj("")]
  ELSE [type |-> "throw", value |-> Num(0), error |-> outcome.error]

\* the part of execute() before the await, for a handler that may use the
\* registry: the lookup, the handler's registry calls, and how it ends.  A
\* nested execute runs its own synchronous part inside the handler; the
\* handler returns its promise, which the outer execute awaits.
executeReentrantStart(cmds, name, args) ==
  LET command == MapGet(cmds, name)
  IN IF command = <<>>
     THEN [commands |-> cmds,
           outcome |-> Rejected(NotFoundMessage(name, cmds)),
           invoked |-> <<>>,
           awaited |-> HandlerCall("throwError", args),
           nested |-> <<>>, inner |-> <<>>]
     ELSE LET h == command[1].handler
              after == RunOps(cmds, HandlerOps(h))
              end == HandlerEnd(h, args)
              in == executeStart(after, NestedTarget(h), args)
          IN IF end.type = "execute"
             THEN [commands |-> after,
                   outcome |-> [NoOutcome EXCEPT !.status = "pending"],
                   invoked |-> <<[handler |-> h, args |-> args]>>,
                   awaited |-> IF in.outcome.status = "rejected"
                               THEN AsSettlement(in.outcome)
                               ELSE [type |-> "promise", value |-> Num(0),
                                     error |-> ErrorObj("")],
                   nested |-> IF in.outcome.status = "rejected" THEN <<>>
                              ELSE <<[name |-> NestedTarget(h), args |-> args,
                                      invoked |-> in.invoked,
                                      awaited |-> in.awaited]>>,
                   inner |-> <<[name |-> NestedTarget(h), invoked |-> in.invoked]>>]
             ELSE [commands |-> after,
                   outcome |-> IF end.type = "throw"
                               THEN Rejected(ExecutionErrorMessage(name, end.error))
                               ELSE [NoOutcome EXCEPT !.status = "pending"],
                   invoked |-> <<[handler |-> h, args |-> args]>>,
                   awaited |-> end,
                   nested |-> <<>>, inner |-> <<>>]

\* what the promise awaited by a suspended execute can settle with: the
\* handler's own result, or the outcome of the nested execute it returned
ReentrantSettlements(exec) ==
  IF exec.nested = <<>> THEN Settlements(exec)
  ELSE {AsSettlement(executeResume(exec.nested[1].name, t)) :
          t \in Settlements(exec.nested[1])}

(***************************************************************************)
(* The state machine.  last records the most recent operation: what was    *)
(* called, with what, how many entries list() had before it, and what the  *)
(* caller got back (return value, console.warn calls, the handler          *)
(* invocation made, what that invocation settled with, the outcome of the  *)
(* promise).  hist is a history variable: for every name, the handlers     *)
(* passed to the last two registrations of the name since it was last      *)
(* absent (oldest first).  It is recorded only under SpecHist.             *)
(***************************************************************************)
NoLast ==
  [op |-> "init", name |-> "", handler |-> "", metadata |-> <<>>,
   args |-> <<>>, entries |-> <<>>, sizeBefore |-> 0, removed |-> FALSE,
   warnings |-> 0, invoked |-> <<>>, settled |-> <<>>, outcome |-> NoOutcome,
   inner |-> <<>>, text |-> "", threw |-> FALSE,
   found |-> FALSE, names |-> <<>>, all |-> <<>>]

(***************************************************************************)
(* The runtime helpers.  The process environment: whether the global       *)
(* process exists, the keys of process.versions (absent when process has   *)
(* no versions property), whether process.env is there, and the variables  *)
(* set in it.                                                              *)
(***************************************************************************)
VersionKeys == {"bun", "node"}

NodeEnvValues == {"development", "production", "test", "staging", ""}

EnvKeys == {"NODE_ENV"}

NoProcess ==
  [process |-> FALSE, versions |-> <<>>, hasEnv |-> FALSE,
   vars |-> [k \in EnvKeys |-> <<>>]]

\* the process the registry runs in: Bun, which also reports a node version
BunProcess ==
  [process |-> TRUE, versions |-> <<{"bun", "node"}>>, hasEnv |-> TRUE,
   vars |-> [k \in EnvKeys |-> <<>>]]

Environments ==
  {NoProcess} \cup
  { e \in [process : {TRUE},
           versions : {<<>>} \cup {<<v>> : v \in SUBSET VersionKeys},
           hasEnv : BOOLEAN,
           vars : [EnvKeys -> {<<>>} \cup {<<x>> : x \in NodeEnvValues}]] :
      ~e.hasEnv => \A k \in EnvKeys : e.vars[k] = <<>> }

isBun(e) ==
  e.process /\ e.versions # <<>> /\ "bun" \in e.versions[1]

isNodeAnyProcess(e) ==
  e.process /\ e.versions # <<>> /\ "node" \in e.versions[1]

isNode(e) ==
  e.process /\ e.versions # <<>> /\ "node" \in e.versions[1] /\ ~isBun(e)

getRuntime(e) ==
  IF isBun(e) THEN "bun"
  ELSE IF isNode(e) THEN "node"
  ELSE "unknown"

getEnvNoDefault(e, key, defaultValue) ==
  IF ~e.process \/ ~e.hasEnv THEN <<>> ELSE e.vars[key]

\* process.env[key] ?? defaultValue; defaultValue is <<>> when not passed
getEnv(e, key, defaultValue) ==
  IF ~e.process \/ ~e.hasEnv THEN defaultValue
  ELSE IF e.vars[key] # <<>> THEN e.vars[key]
  ELSE defaultValue

isDevelopment(e) == getEnv(e, "NODE_ENV", <<"development">>) = <<"development">>

isProduction(e) == getEnv(e, "NODE_ENV", <<"development">>) = <<"production">>

isTest(e) == getEnv(e, "NODE_ENV", <<"development">>) = <<"test">>

HistNames == {"add", "m:add", "m:1", "m:m:add", "ghost"}

Init ==
  /\ commands = <<>>
  /\ execs = <<>>
  /\ last = NoLast
  /\ hist = [n \in HistNames |-> <<>>]
  /\ env = BunProcess

\* the runtime helpers start in any process environment
InitRuntime ==
  /\ commands = <<>>
  /\ execs = <<>>
  /\ last = NoLast
  /\ hist = [n \in HistNames |-> <<>>]
  /\ env \in Environments

Register(name, handler, metadata) ==
  LET r == register(commands, name, handler, metadata)
  IN /\ commands' = r.commands
     /\ last' = [NoLast EXCEPT !.op = "register", !.name = name,
                               !.handler = handler, !.metadata = metadata,
                               !.sizeBefore = Len(commands),
                               !.warnings = r.warnings]
     /\ UNCHANGED <<execs, env>>

Plugin(pluginName, obj) ==
  LET r == plugin(commands, pluginName, obj)
  IN /\ commands' = r.commands
     /\ last' = [NoLast EXCEPT !.op = "plugin", !.name = pluginName,
                               !.entries = obj,
                               !.sizeBefore = Len(commands),
                               !.warnings = r.warnings,
                               !.threw = pluginThrows(obj)]
     /\ UNCHANGED <<execs, env>>

UnregisterCancels(name) ==
  LET r == unregister(commands, name)
  IN /\ commands' = r.commands
     /\ last' = [NoLast EXCEPT !.op = "unregister", !.name = name,
                               !.sizeBefore = Len(commands),
                               !.removed = r.removed]
     /\ execs' = SelectSeq(execs, LAMBDA e : e.name # name)
     /\ UNCHANGED env

Unregister(name) ==
  LET r == unregister(commands, name)
  IN /\ commands' = r.commands
     /\ last' = [NoLast EXCEPT !.op = "unregister", !.name = name,
                               !.sizeBefore = Len(commands),
                               !.removed = r.removed]
     /\ UNCHANGED <<execs, env>>

Clear ==
  /\ commands' = clear(commands)
  /\ last' = [NoLast EXCEPT !.op = "clear", !.sizeBefore = Len(commands)]
  /\ UNCHANGED <<execs, env>>

\* a call of execute(name, ...args): settled at once when the lookup fails
\* or the handler throws, suspended at the await otherwise
ExecuteCallDropsFailed(name, args) ==
  LET r == executeStart(commands, name, args)
  IN /\ execs' = IF r.outcome.status = "pending"
                 THEN Append(execs, [name |-> name, args |-> args,
                                     invoked |-> r.invoked, awaited |-> r.awaited])
                 ELSE execs
     /\ last' = [NoLast EXCEPT !.op = "execute", !.name = name, !.args = args,
                               !.sizeBefore = Len(commands),
                               !.invoked = r.invoked,
                               !.settled = IF r.awaited.type = "throw"
                                           /\ r.invoked # <<>>
                                           THEN <<r.awaited>> ELSE <<>>,
                               !.outcome = r.outcome]
     /\ commands' = IF r.outcome.status = "rejected"
                    THEN MapDelete(commands, name) ELSE commands
     /\ UNCHANGED env

ExecuteCallDeduplicates(name, args) ==
  LET r == executeStart(commands, name, args)
      same == \E i \in DOMAIN execs : execs[i].name = name /\ execs[i].args = args
  IN /\ execs' = IF r.outcome.status = "pending" /\ ~same
                 THEN Append(execs, [name |-> name, args |-> args,
                                     invoked |-> r.invoked, awaited |-> r.awaited])
                 ELSE execs
     /\ last' = [NoLast EXCEPT !.op = "execute", !.name = name, !.args = args,
                               !.sizeBefore = Len(commands),
                               !.invoked = IF same THEN <<>> ELSE r.invoked,
                               !.outcome = r.outcome]
     /\ UNCHANGED <<commands, env>>

ExecuteCall(name, args) ==
  LET r == executeStart(commands, name, args)
  IN /\ execs' = IF r.outcome.status = "pending"
                 THEN Append(execs, [name |-> name, args |-> args,
                                     invoked |-> r.invoked, awaited |-> r.awaited])
                 ELSE execs
     /\ last' = [NoLast EXCEPT !.op = "execute", !.name = name, !.args = args,
                               !.sizeBefore = Len(commands),
                               !.invoked = r.invoked,
                               !.settled = IF r.awaited.type = "throw"
                                           /\ r.invoked # <<>>
                                           THEN <<r.awaited>> ELSE <<>>,
                               !.outcome = r.outcome]
     /\ UNCHANGED <<commands, env>>

\* execute() while at most MaxInFlight calls are suspended
Execute(name, args) ==
  /\ executeStart(commands, name, args).outcome.status = "pending" =>
       Len(execs) < MaxInFlight
  /\ ExecuteCall(name, args)

ExecuteSettleLooksUpAgain(i, settled) ==
  /\ i \in DOMAIN execs
  /\ settled \in Settlements(execs[i])
  /\ execs' = [j \in 1..(Len(execs) - 1) |-> IF j < i THEN execs[j] ELSE execs[j + 1]]
  /\ last' = [NoLast EXCEPT !.op = "settled", !.name = execs[i].name,
                            !.args = execs[i].args,
                            !.sizeBefore = Len(commands),
                            !.invoked = execs[i].invoked,
                            !.settled = <<settled>>,
                            !.outcome =
                              IF has(commands, execs[i].name)
                              THEN executeResume(execs[i].name, settled)
                              ELSE Rejected(NotFoundMessage(execs[i].name,
                                                            commands))]
  /\ UNCHANGED <<commands, env>>

\* what a suspended execute awaits settles, and the execute resumes
ExecuteSettle(i, settled) ==
  /\ i \in DOMAIN execs
  /\ settled \in Settlements(execs[i])
  /\ execs' = [j \in 1..(Len(execs) - 1) |-> IF j < i THEN execs[j] ELSE execs[j + 1]]
  /\ last' = [NoLast EXCEPT !.op = "settled", !.name = execs[i].name,
                            !.args = execs[i].args,
                            !.sizeBefore = Len(commands),
                            !.invoked = execs[i].invoked,
                            !.settled = <<settled>>,
                            !.outcome = executeResume(execs[i].name, settled)]
  /\ UNCHANGED <<commands, env>>

\* execute(name, ...args) of a handler that may use the registry
ExecuteReentrant(name, args) ==
  LET r == executeReentrantStart(commands, name, args)
  IN /\ r.outcome.status = "pending" => Len(execs) < MaxInFlight
     /\ commands' = r.commands
     /\ execs' = IF r.outcome.status = "pending"
                 THEN Append(execs, [name |-> name, args |-> args,
                                     invoked |-> r.invoked, awaited |-> r.awaited,
                                     nested |-> r.nested])
                 ELSE execs
     /\ last' = [NoLast EXCEPT !.op = "execute", !.name = name, !.args = args,
                               !.sizeBefore = Len(commands),
                               !.invoked = r.invoked,
                               !.settled = IF r.awaited.type = "throw"
                                           /\ r.invoked # <<>>
                                           /\ r.outcome.status = "rejected"
                                           THEN <<r.awaited>> ELSE <<>>,
                               !.outcome = r.outcome,
                               !.inner = r.inner]
     /\ UNCHANGED env

\* what such an execute awaits settles, and the execute resumes
ExecuteReentrantSettle(i) ==
  /\ i \in DOMAIN execs
  /\ \E settled \in ReentrantSettlements(execs[i]) :
       last' = [NoLast EXCEPT !.op = "settled", !.name = execs[i].name,
                              !.args = execs[i].args,
                              !.sizeBefore = Len(commands),
                              !.invoked = execs[i].invoked,
                              !.settled = <<settled>>,
                              !.outcome = executeResume(execs[i].name, settled)]
  /\ execs' = [j \in 1..(Len(execs) - 1) |-> IF j < i THEN execs[j] ELSE execs[j + 1]]
  /\ UNCHANGED <<commands, env>>

\* a call of help(name?); nameOpt is <<>> when no argument is passed
Help(nameOpt) ==
  /\ last' = [NoLast EXCEPT !.op = "help", !.args = nameOpt,
                            !.sizeBefore = Len(commands),
                            !.text = help(commands, nameOpt)]
  /\ UNCHANGED <<commands, execs, env>>

\* has(name)
Has(name) ==
  /\ last' = [NoLast EXCEPT !.op = "has", !.name = name,
                            !.sizeBefore = Len(commands),
                            !.found = has(commands, name)]
  /\ UNCHANGED <<commands, execs, env>>

GetMetadataInserts(name) ==
  /\ last' = [NoLast EXCEPT !.op = "getMetadata", !.name = name,
                            !.sizeBefore = Len(commands),
                            !.metadata = getMetadata(commands, name)]
  /\ commands' = IF MapHas(commands, name) THEN commands
                 ELSE MapSet(commands, name,
                             [handler |-> "undefined", metadata |-> <<>>])
  /\ UNCHANGED <<execs, env>>

\* getMetadata(name)
GetMetadata(name) ==
  /\ last' = [NoLast EXCEPT !.op = "getMetadata", !.name = name,
                            !.sizeBefore = Len(commands),
                            !.metadata = getMetadata(commands, name)]
  /\ UNCHANGED <<commands, execs, env>>

\* list()
List ==
  /\ last' = [NoLast EXCEPT !.op = "list", !.sizeBefore = Len(commands),
                            !.names = list(commands)]
  /\ UNCHANGED <<commands, execs, env>>

\* getAll()
GetAll ==
  /\ last' = [NoLast EXCEPT !.op = "getAll", !.sizeBefore = Len(commands),
                            !.all = getAll(commands)]
  /\ UNCHANGED <<commands, execs, env>>

\* the runtime helpers: each reads the process environment and returns
IsBun ==
  /\ last' = [NoLast EXCEPT !.op = "isBun", !.found = isBun(env)]
  /\ UNCHANGED <<commands, execs, env>>

IsNode ==
  /\ last' = [NoLast EXCEPT !.op = "isNode", !.found = isNode(env)]
  /\ UNCHANGED <<commands, execs, env>>

GetRuntime ==
  /\ last' = [NoLast EXCEPT !.op = "getRuntime", !.text = getRuntime(env)]
  /\ UNCHANGED <<commands, execs, env>>

IsDevelopment ==
  /\ last' = [NoLast EXCEPT !.op = "isDevelopment", !.found = isDevelopment(env)]
  /\ UNCHANGED <<commands, execs, env>>

IsProduction ==
  /\ last' = [NoLast EXCEPT !.op = "isProduction", !.found = isProduction(env)]
  /\ UNCHANGED <<commands, execs, env>>

IsTest ==
  /\ last' = [NoLast EXCEPT !.op = "isTest", !.found = isTest(env)]
  /\ UNCHANGED <<commands, execs, env>>

\* the promise the handler of a suspended execute returned settles; the
\* execute itself resumes in a later step
HandlerSettles(i, settled) ==
  /\ i \in DOMAIN execs
  /\ execs[i].awaited.type = "promise"
  /\ settled \in AsyncOutcomes(execs[i].invoked[1].args)
  /\ execs' = [execs EXCEPT ![i].awaited = settled]
  /\ last' = [NoLast EXCEPT !.op = "handlerSettled", !.name = execs[i].name,
                            !.args = execs[i].args,
                            !.sizeBefore = Len(commands),
                            !.invoked = execs[i].invoked,
                            !.settled = <<settled>>,
                            !.outcome = [NoOutcome EXCEPT !.status = "pending"]]
  /\ UNCHANGED <<commands, env>>

\* a suspended execute whose awaited value has settled runs its continuation
ExecuteResumes(i) ==
  /\ i \in DOMAIN execs
  /\ execs[i].awaited.type # "promise"
  /\ ExecuteSettle(i, execs[i].awaited)

AllSettlements ==
  UNION {AsyncOutcomes(a) \cup {HandlerCall("subtract", a)} : a \in ArgLists}

Next ==
  \/ \E n \in DirectNames, h \in Handlers, m \in Metadatas :
       Register(n, h, m) /\ UNCHANGED hist
  \/ \E p \in PluginNames, o \in PluginObjects : Plugin(p, o) /\ UNCHANGED hist
  \/ \E n \in QueryNames : Unregister(n) /\ UNCHANGED hist
  \/ Clear /\ UNCHANGED hist
  \/ \E n \in QueryNames, a \in ArgLists : Execute(n, a) /\ UNCHANGED hist
  \/ \E i \in 1..MaxInFlight, s \in AllSettlements :
       ExecuteSettle(i, s) /\ UNCHANGED hist

Spec == Init /\ [][Next]_vars

\* the registry alone (no execute), over the wider set of names
NextRegistry ==
  \/ \E n \in DirectNames, r \in WideRegistrations :
       Register(n, r.handler, r.metadata) /\ UNCHANGED hist
  \/ \E p \in PluginNames, o \in WidePluginObjects : Plugin(p, o) /\ UNCHANGED hist
  \/ \E n \in WideQueryNames : Unregister(n) /\ UNCHANGED hist
  \/ Clear /\ UNCHANGED hist

SpecRegistry == Init /\ [][NextRegistry]_vars

\* the machine with handlers that use the registry: such handlers under
\* "add", handlers that do not under "m:add"
NextReentrant ==
  \/ \E h \in ReentrantHandlers : Register("add", h, <<>>) /\ UNCHANGED hist
  \/ \E h \in Handlers : Register("m:add", h, <<>>) /\ UNCHANGED hist
  \/ \E n \in DirectNames : Unregister(n) /\ UNCHANGED hist
  \/ \E n \in QueryNames : ExecuteReentrant(n, <<5, 3>>) /\ UNCHANGED hist
  \/ \E i \in 1..MaxInFlight : ExecuteReentrantSettle(i) /\ UNCHANGED hist

SpecReentrant == Init /\ [][NextReentrant]_vars

\* several execute calls in flight at once: an asynchronous command and a
\* synchronous one, called with either argument list
NextConcurrent ==
  \/ Register("add", "fetchData", <<>>) /\ UNCHANGED hist
  \/ Register("m:add", "subtract", <<>>) /\ UNCHANGED hist
  \/ \E n \in DirectNames, a \in ArgLists :
       Len(execs) < MaxConcurrent /\ ExecuteCall(n, a) /\ UNCHANGED hist
  \/ \E i \in 1..MaxConcurrent, s \in AllSettlements :
       ExecuteSettle(i, s) /\ UNCHANGED hist

SpecConcurrent == Init /\ [][NextConcurrent]_vars

\* every operation next to an execute in flight, with plugin batches of
\* more than one command
NextAtomic ==
  \/ Register("add", "fetchData", <<>>) /\ UNCHANGED hist
  \/ \E p \in PluginNames, o \in PairPluginObjects : Plugin(p, o) /\ UNCHANGED hist
  \/ \E n \in DirectNames : Unregister(n) /\ UNCHANGED hist
  \/ Clear /\ UNCHANGED hist
  \/ \E n \in DirectNames : Execute(n, <<5, 3>>) /\ UNCHANGED hist
  \/ \E i \in 1..MaxInFlight, s \in AllSettlements :
       ExecuteSettle(i, s) /\ UNCHANGED hist

SpecAtomic == Init /\ [][NextAtomic]_vars

\* the registry with help()
NextHelp ==
  \/ \E n \in DirectNames, m \in HelpMetadatas :
       Register(n, "subtract", m) /\ UNCHANGED hist
  \/ \E p \in PluginNames, o \in PluginObjects : Plugin(p, o) /\ UNCHANGED hist
  \/ \E n \in DirectNames : Unregister(n) /\ UNCHANGED hist
  \/ Clear /\ UNCHANGED hist
  \/ \E a \in HelpArgs : Help(a) /\ UNCHANGED hist

SpecHelp == Init /\ [][NextHelp]_vars

\* registrations of any name, of handlers that are not callable, and of
\* plugin objects with values of any type
NextLoose ==
  \/ \E m \in Metadatas : Register("", "notCallable", m) /\ UNCHANGED hist
  \/ Register("m:add", "subtract", <<>>) /\ UNCHANGED hist
  \/ \E p \in PluginNames, o \in LoosePluginObjects : Plugin(p, o) /\ UNCHANGED hist
  \/ Clear /\ UNCHANGED hist

SpecLoose == Init /\ [][NextLoose]_vars

\* one execute call followed from its call to its settlement: the promise
\* of the handler may settle or stay pending for ever; once it has settled
\* (or the handler returned a plain value) the continuation of the await is
\* a queued microtask, which the event loop runs
NextLive ==
  \/ \E h \in Handlers, m \in Metadatas : Register("add", h, m) /\ UNCHANGED hist
  \/ Unregister("add") /\ UNCHANGED hist
  \/ Clear /\ UNCHANGED hist
  \/ execs = <<>> /\ ExecuteCall("add", <<5, 3>>) /\ UNCHANGED hist
  \/ \E s \in AllSettlements : HandlerSettles(1, s) /\ UNCHANGED hist
  \/ ExecuteResumes(1) /\ UNCHANGED hist

SpecLive ==
  /\ Init
  /\ [][NextLive]_vars
  /\ WF_vars(ExecuteResumes(1) /\ UNCHANGED hist)

\* the registry with a handler that reads its receiver, registered with and
\* without metadata
NextReceiver ==
  \/ \E n \in DirectNames, h \in ReceiverHandlers \cup {"subtract"},
        m \in Metadatas :
       Register(n, h, m) /\ UNCHANGED hist
  \/ \E n \in DirectNames : Unregister(n) /\ UNCHANGED hist
  \/ \E n \in QueryNames, a \in ArgLists : Execute(n, a) /\ UNCHANGED hist
  \/ ExecuteResumes(1) /\ UNCHANGED hist

SpecReceiver == Init /\ [][NextReceiver]_vars

\* the registry with its queries
NextQuery ==
  \/ \E n \in DirectNames, m \in Metadatas :
       Register(n, "subtract", m) /\ UNCHANGED hist
  \/ \E n \in DirectNames : Unregister(n) /\ UNCHANGED hist
  \/ Clear /\ UNCHANGED hist
  \/ \E n \in QueryNames \cup {""} : Has(n) /\ UNCHANGED hist
  \/ \E n \in QueryNames \cup {""} : GetMetadata(n) /\ UNCHANGED hist
  \/ List /\ UNCHANGED hist
  \/ GetAll /\ UNCHANGED hist
  \/ \E a \in HelpArgs : Help(a) /\ UNCHANGED hist
  \/ \E n \in QueryNames : Execute(n, <<5, 3>>) /\ UNCHANGED hist
  \/ ExecuteResumes(1) /\ UNCHANGED hist

SpecQuery == Init /\ [][NextQuery]_vars

\* plugins whose composite names coincide, next to a direct registration
\* of the same name
NextCollide ==
  \/ \E p \in CollidePluginNames, o \in CollidePluginObjects :
       Plugin(p, o) /\ UNCHANGED hist
  \/ Register(CollideName, "throwError", Metadata1) /\ UNCHANGED hist
  \/ Unregister(CollideName) /\ UNCHANGED hist
  \/ Clear /\ UNCHANGED hist

SpecCollide == Init /\ [][NextCollide]_vars

\* registrations whose handler is not callable, next to well-formed ones,
\* and their execution
MalformedPluginObjects == PluginObjectsOver({"add"}, {NumberValue} \cup PluginValues)

NextMalformed ==
  \/ \E n \in DirectNames, h \in {"notCallable", "subtract"}, m \in Metadatas :
       Register(n, h, m) /\ UNCHANGED hist
  \/ \E p \in PluginNames, o \in MalformedPluginObjects :
       Plugin(p, o) /\ UNCHANGED hist
  \/ \E n \in DirectNames : Unregister(n) /\ UNCHANGED hist
  \/ \E n \in QueryNames, a \in ArgLists : Execute(n, a) /\ UNCHANGED hist
  \/ ExecuteResumes(1) /\ UNCHANGED hist

SpecMalformed == Init /\ [][NextMalformed]_vars

\* the runtime helpers, called in any order in one process environment
NextRuntime ==
  \/ IsBun /\ UNCHANGED hist
  \/ IsNode /\ UNCHANGED hist
  \/ GetRuntime /\ UNCHANGED hist
  \/ IsDevelopment /\ UNCHANGED hist
  \/ IsProduction /\ UNCHANGED hist
  \/ IsTest /\ UNCHANGED hist

SpecRuntime == InitRuntime /\ [][NextRuntime]_vars

\* the history of the registrations of every name, after the operation
\* recorded in l
Push(s, x) == IF s = <<>> THEN <<x>> ELSE <<s[Len(s)], x>>

HistAfter(h, l) ==
  [n \in HistNames |->
     CASE l.op = "register" /\ l.name = n -> Push(h[n], l.handler)
       [] l.op = "plugin"
            /\ \E i \in DOMAIN l.entries : l.name \o ":" \o l.entries[i].key = n ->
          Push(h[n],
               l.entries[CHOOSE i \in DOMAIN l.entries :
                           l.name \o ":" \o l.entries[i].key = n].value.handler)
       [] l.op = "unregister" /\ l.name = n -> <<>>
       [] l.op = "clear" -> <<>>
       [] OTHER -> h[n]]

\* the whole machine with the history recorded (metadata and the choice of
\* the arguments left out)
NextHist ==
  \/ \E n \in DirectNames, h \in Handlers :
       Register(n, h, <<>>) /\ hist' = HistAfter(hist, last')
  \/ \E p \in PluginNames, o \in PluginObjects :
       Plugin(p, o) /\ hist' = HistAfter(hist, last')
  \/ \E n \in QueryNames : Unregister(n) /\ hist' = HistAfter(hist, last')
  \/ Clear /\ hist' = HistAfter(hist, last')
  \/ \E n \in DirectNames : Execute(n, <<5, 3>>) /\ UNCHANGED hist
  \/ \E i \in 1..MaxInFlight, s \in AllSettlements :
       ExecuteSettle(i, s) /\ UNCHANGED hist

SpecHist == Init /\ [][NextHist]_vars

\* the entry a name last lost (its handler, its metadata and its position),
\* with reborn false until the name is registered again; the record goes
\* when the name is registered a second time
RemovedEntry(cmds, n) ==
  <<[handler |-> MapGet(cmds, n)[1].handler,
     metadata |-> MapGet(cmds, n)[1].metadata,
     position |-> MapIndex(cmds, n),
     reborn |-> FALSE]>>

RemovedAfter(h, cmds, l) ==
  [n \in HistNames |->
     CASE l.op = "unregister" /\ l.name = n /\ l.removed -> RemovedEntry(cmds, n)
       [] l.op = "clear" /\ MapHas(cmds, n) -> RemovedEntry(cmds, n)
       [] l.op = "register" /\ l.name = n /\ h[n] # <<>> ->
            IF h[n][1].reborn THEN <<>> ELSE <<[h[n][1] EXCEPT !.reborn = TRUE]>>
       [] OTHER -> h[n]]

\* register, unregister and clear over two names, with the last removed
\* entry of every name recorded
ReRegisterNames == DirectNames
ReRegisterHandlers == {"subtract", "fetchData"}

NextRemoved ==
  \/ \E n \in ReRegisterNames, h \in ReRegisterHandlers, m \in Metadatas :
       Register(n, h, m) /\ hist' = RemovedAfter(hist, commands, last')
  \/ \E n \in ReRegisterNames :
       Unregister(n) /\ hist' = RemovedAfter(hist, commands, last')
  \/ Clear /\ hist' = RemovedAfter(hist, commands, last')

SpecRemoved == Init /\ [][NextRemoved]_vars

TypeOK ==
  /\ \A i, j \in DOMAIN commands : i # j => commands[i].key # commands[j].key
  /\ Len(execs) <= MaxInFlight

(***************************************************************************)
(* Claims.                                                                 *)
(***************************************************************************)

\* C1: immediately after register(n, h, m), has(n) is true and
\* getMetadata(n) returns m (undefined when m was omitted), whatever the
\* registry held before the call.
C1_RegisterThenHasAndMetadata ==
  last.op = "register" =>
    /\ has(commands, last.name)
    /\ getMetadata(commands, last.name) = last.metadata

\* register() has overwritten an entry and recorded new metadata
C1_Witness ==
  /\ last.op = "register"
  /\ last.warnings = 1
  /\ last.metadata = Metadata1
  /\ Len(commands) = 2

\* C2: execute(n, ...args) of a registered n invokes the handler stored for
\* n with exactly args, in the same positions, and resolves to exactly the
\* value the handler produces: the difference args[1] - args[2] for the
\* synchronous handler, the value its promise settled with for the
\* asynchronous one.
C2_ExecuteForwardsArgsAndResult ==
  /\ (last.op = "execute" /\ has(commands, last.name)) =>
       last.invoked = <<[handler |-> MapGet(commands, last.name)[1].handler,
                         args |-> last.args]>>
  /\ \A i \in DOMAIN execs : execs[i].invoked[1].args = execs[i].args
  /\ (last.op = "settled" /\ last.settled[1].type = "value") =>
       /\ last.invoked[1].args = last.args
       /\ last.outcome = Fulfilled(last.settled[1].value)
       /\ last.invoked[1].handler = "subtract" =>
            last.outcome.value = Num(last.args[1] - last.args[2])
       /\ last.invoked[1].handler = "fetchData" =>
            last.outcome.value = Str("Async: " \o ToString(last.args[1]))

\* an execute of the synchronous handler has resolved with a negative number
C2_Witness ==
  /\ last.op = "settled"
  /\ last.outcome.status = "fulfilled"
  /\ last.invoked[1].handler = "subtract"
  /\ last.outcome.value = Num(0 - 2)

\* the two kinds of failure of execute(), told apart by the message
IsNotFound(error, name) ==
  /\ error.t = "Error"
  /\ StartsWith(error.text, "Command \"" \o name \o "\" not found.")

IsExecutionError(error, name) ==
  /\ error.t = "Error"
  /\ StartsWith(error.text, "Error executing command \"" \o name \o "\": ")

\* C3: for every name n that list() does not hold, has(n) is false and
\* execute(n, ...) fails with NotFound (a message that holds n and
\* "not found") without invoking any handler and without becoming pending.
C3_AbsentNameIsNotFound ==
  (last.op = "execute"
     /\ \A i \in DOMAIN list(commands) : list(commands)[i] # last.name) =>
    /\ ~has(commands, last.name)
    /\ last.outcome.status = "rejected"
    /\ IsNotFound(last.outcome.error, last.name)
    /\ Contains(last.outcome.error.text, last.name)
    /\ Contains(last.outcome.error.text, "not found")
    /\ last.invoked = <<>>
    /\ last.settled = <<>>

\* execute of a name that is absent while another command is registered
C3_Witness ==
  /\ last.op = "execute"
  /\ last.name = "add"
  /\ ~has(commands, "add")
  /\ has(commands, "m:add")

\* what a thrown value carries as its message: the message of an Error or
\* of an object with a message property, the string itself for a string
OriginalMessage(e) == e.text

\* C4 as stated: whenever the handler throws or its promise rejects,
\* execute fails with an ExecutionError whose message contains n and the
\* original failure's message.
C4_Original ==
  (last.op \in {"execute", "settled"}
     /\ last.settled # <<>> /\ last.settled[1].type = "throw") =>
    /\ last.outcome.status = "rejected"
    /\ IsExecutionError(last.outcome.error, last.name)
    /\ Contains(last.outcome.error.text, last.name)
    /\ Contains(last.outcome.error.text, OriginalMessage(last.settled[1].error))

\* C4 (amended): whenever the handler throws or its promise rejects,
\* execute fails with an ExecutionError whose message contains n and, when
\* the failure is an Error instance, the failure's message, and otherwise
\* the failure's string conversion (the string itself for a thrown string,
\* "[object Object]" for a plain object, whose message property is lost);
\* execute never returns a value then.
C4_HandlerFailureIsWrapped ==
  (last.op \in {"execute", "settled"}
     /\ last.settled # <<>> /\ last.settled[1].type = "throw") =>
    /\ last.outcome.status = "rejected"
    /\ last.outcome.value = Num(0)
    /\ IsExecutionError(last.outcome.error, last.name)
    /\ Contains(last.outcome.error.text, last.name)
    /\ last.settled[1].error.t \in {"Error", "string"} =>
         Contains(last.outcome.error.text, last.settled[1].error.text)
    /\ last.settled[1].error.t = "object" =>
         /\ Contains(last.outcome.error.text, "[object Object]")
         /\ ~Contains(last.outcome.error.text, last.settled[1].error.text)

\* the promise of the asynchronous handler has rejected with an Error
C4_Witness ==
  /\ last.op = "settled"
  /\ last.settled[1].type = "throw"
  /\ last.settled[1].error = ErrorObj("fetch failed")
  /\ last.outcome.status = "rejected"

\* C5: after register(n, h1, ...) followed by register(n, h2, ...), every
\* execute(n, ...) called afterwards invokes h2, the handler of the most
\* recent registration of n, and never the replaced h1.
C5_OnlyNewHandlerRuns ==
  (last.op = "execute" /\ hist[last.name] # <<>>) =>
    /\ last.invoked =
         <<[handler |-> hist[last.name][Len(hist[last.name])],
            args |-> last.args]>>
    /\ (Len(hist[last.name]) = 2 /\ hist[last.name][1] # hist[last.name][2]) =>
         last.invoked[1].handler # hist[last.name][1]

\* execute of a name whose handler had been replaced by a different one
C5_Witness ==
  /\ last.op = "execute"
  /\ Len(hist[last.name]) = 2
  /\ hist[last.name][1] = "throwError"
  /\ hist[last.name][2] = "subtract"
  /\ last.invoked # <<>>
  /\ last.outcome.status = "pending"

NoDuplicates(seq) == \A i, j \in DOMAIN seq : i # j => seq[i] # seq[j]

\* C6: in every reachable state list() holds no name twice, and a register
\* of a name that is already present leaves the number of entries
\* unchanged (it replaces the entry; nothing is thrown).
C6_AtMostOneEntryPerName ==
  /\ [](NoDuplicates(list(commands)))
  /\ [][(last'.op = "register" /\ has(commands, last'.name)) =>
          /\ Len(list(commands')) = Len(list(commands))
          /\ MapGet(commands', last'.name) =
               <<[handler |-> last'.handler, metadata |-> last'.metadata]>>]_vars

\* a register has overwritten one of two entries
C6_Witness ==
  /\ last.op = "register"
  /\ last.warnings = 1
  /\ last.sizeBefore = 2
  /\ Len(commands) = 2

\* C7: unregister(n) returns true exactly when n was present just before
\* the call, has(n) is false afterwards, and when n was absent the call
\* returns false and leaves the registry as it was.
C7_UnregisterReturnsPresence ==
  [][last'.op = "unregister" =>
       /\ last'.removed = has(commands, last'.name)
       /\ ~has(commands', last'.name)
       /\ ~has(commands, last'.name) => commands' = commands
       /\ has(commands, last'.name) =>
            Len(list(commands')) = Len(list(commands)) - 1]_vars

\* unregister has removed one of two entries and returned true
C7_Witness ==
  /\ last.op = "unregister"
  /\ last.removed
  /\ last.sizeBefore = 2
  /\ Len(commands) = 1
  /\ ~has(commands, last.name)

\* C8: after clear(), list() has length zero and has(n) is false for every
\* name n, whatever the registry held before (also when it was empty).
C8_ClearEmptiesRegistry ==
  last.op = "clear" =>
    /\ Len(list(commands)) = 0
    /\ \A n \in QueryNames : ~has(commands, n)
    /\ getAll(commands) = <<>>

\* clear() was called on a registry of two commands
C8_Witness ==
  /\ last.op = "clear"
  /\ last.sizeBefore = 2
  /\ list(commands) = <<>>

\* the composite names a plugin call registers, and positions in a listing
CompositeName(l, i) == l.name \o ":" \o l.entries[i].key

Composites(l) == {CompositeName(l, i) : i \in DOMAIN l.entries}

Position(seq, x) == CHOOSE i \in DOMAIN seq : seq[i] = x

\* C9 as stated: after plugin(p, cmds), has("p:s") is true for every short
\* name s of cmds, has(s) is what it was before the call, and on a
\* previously empty registry list() is the composite names in the order
\* the entries were given.
C9_Original ==
  [][last'.op = "plugin" =>
       /\ \A i \in DOMAIN last'.entries :
            /\ has(commands', CompositeName(last', i))
            /\ has(commands', last'.entries[i].key) =
                 has(commands, last'.entries[i].key)
       /\ commands = <<>> =>
            list(commands') =
              [i \in DOMAIN last'.entries |-> CompositeName(last', i)]]_vars

\* C9 (amended): after plugin(p, cmds), has("p:s") is true for every short
\* name s of cmds and no other name is added or removed, so has(s) is what
\* it was before for every short name s that is not itself one of the
\* composite names; on a previously empty registry list() is the composite
\* names in the order Object.entries enumerates cmds: integer-like keys
\* first, in ascending numeric order, then the other keys in the order
\* they were given.
C9_PluginRegistersCompositeNames ==
  [][last'.op = "plugin" =>
       /\ \A i \in DOMAIN last'.entries :
            /\ has(commands', CompositeName(last', i))
            /\ last'.entries[i].key \notin Composites(last') =>
                 has(commands', last'.entries[i].key) =
                   has(commands, last'.entries[i].key)
       /\ \A n \in WideQueryNames \cup WideShortNames :
            has(commands', n) = (has(commands, n) \/ n \in Composites(last'))
       /\ commands = <<>> =>
            /\ Len(list(commands')) = Len(last'.entries)
            /\ \A i, j \in DOMAIN last'.entries :
                 i # j =>
                   LET ki == last'.entries[i].key
                       kj == last'.entries[j].key
                       first ==
                         \/ IsArrayIndex(ki) /\ IsArrayIndex(kj)
                              /\ ArrayIndexOf(ki) < ArrayIndexOf(kj)
                         \/ IsArrayIndex(ki) /\ ~IsArrayIndex(kj)
                         \/ ~IsArrayIndex(ki) /\ ~IsArrayIndex(kj) /\ i < j
                   IN first <=>
                        Position(list(commands'), CompositeName(last', i))
                          < Position(list(commands'), CompositeName(last', j))]_vars

\* plugin("m", {add: ..., 1: ...}) on an empty registry: the integer-like
\* key is registered first
C9_Witness ==
  /\ last.op = "plugin"
  /\ last.sizeBefore = 0
  /\ Len(last.entries) = 2
  /\ last.entries[1].key = "add"
  /\ last.entries[2].key = "1"
  /\ list(commands) = <<"m:1", "m:add">>
  /\ ~has(commands, "add")

\* C10: list() holds exactly the registered names, in the order of their
\* registration: a register or plugin leaves the names already present at
\* their positions (an overwritten name keeps its position) and appends
\* the new ones, unregister removes the name and keeps the order of the
\* others, clear empties the listing.
C10_ListInRegistrationOrder ==
  /\ [](\A n \in WideQueryNames :
          has(commands, n) <=> \E i \in DOMAIN list(commands) : list(commands)[i] = n)
  /\ [][/\ last'.op = "register" =>
            list(commands') =
              IF has(commands, last'.name) THEN list(commands)
              ELSE Append(list(commands), last'.name)
        /\ last'.op = "plugin" =>
            /\ Len(list(commands')) >= Len(list(commands))
            /\ SubSeq(list(commands'), 1, Len(list(commands))) = list(commands)
            /\ \A i \in (Len(list(commands)) + 1)..Len(list(commands')) :
                 list(commands')[i] \in Composites(last')
        /\ last'.op = "unregister" =>
            list(commands') = SelectSeq(list(commands), LAMBDA n : n # last'.name)
        /\ last'.op = "clear" => list(commands') = <<>>]_vars

\* a register has overwritten the first of three entries, which stays first
C10_Witness ==
  /\ last.op = "register"
  /\ last.warnings = 1
  /\ Len(commands) = 3
  /\ list(commands)[1] = last.name
  /\ commands[1].value.handler = last.handler

\* the metadata plugin() passes to register() for the composite name n
PluginMetadataFor(l, n) ==
  LET e == l.entries[CHOOSE i \in DOMAIN l.entries : CompositeName(l, i) = n].value
  IN IF e.bare THEN <<>> ELSE e.metadata

\* C11: getMetadata(n) is the metadata of the most recent registration of n
\* while n is present: a register of n (directly or through plugin) sets it
\* to the metadata of that call, undefined when none was passed even if the
\* replaced entry had metadata; every other operation leaves it as it was
\* unless it removes n; and it is undefined whenever n is not registered.
C11_GetMetadataIsLatest ==
  /\ [](\A n \in QueryNames : ~has(commands, n) => getMetadata(commands, n) = <<>>)
  /\ [][\A n \in QueryNames :
          CASE last'.op = "register" /\ last'.name = n ->
                 getMetadata(commands', n) = last'.metadata
            [] last'.op = "plugin" /\ n \in Composites(last') ->
                 getMetadata(commands', n) = PluginMetadataFor(last', n)
            [] last'.op = "unregister" /\ last'.name = n ->
                 getMetadata(commands', n) = <<>>
            [] last'.op = "clear" ->
                 getMetadata(commands', n) = <<>>
            [] OTHER ->
                 getMetadata(commands', n) = getMetadata(commands, n)]_vars

\* a name has been registered again without metadata while another name
\* still has its metadata
C11_Witness ==
  /\ last.op = "register"
  /\ last.warnings = 1
  /\ last.metadata = <<>>
  /\ getMetadata(commands, last.name) = <<>>
  /\ \E n \in QueryNames : getMetadata(commands, n) = Metadata1

\* C12: a failure of execute(n, ...) in the handler (a throw, or a rejection
\* of its promise) changes nothing in the registry: the mapping after the
\* failure is the mapping before it, so n has the handler and metadata it
\* had, list() is the same, and when the handler threw at the call a further
\* execute(n, ...) with the same arguments invokes the same handler again.
C12_FailureLeavesRegistryUnchanged ==
  [][(last'.op \in {"execute", "settled"}
        /\ last'.outcome.status = "rejected" /\ last'.invoked # <<>>) =>
       /\ commands' = commands
       /\ list(commands') = list(commands)
       /\ MapGet(commands', last'.name) = MapGet(commands, last'.name)
       /\ getMetadata(commands', last'.name) = getMetadata(commands, last'.name)
       /\ last'.op = "execute" =>
            /\ has(commands', last'.name)
            /\ executeStart(commands', last'.name, last'.args).invoked
                 = last'.invoked]_vars

\* the handler of a command with metadata has thrown, and the command is
\* still registered next to another one
C12_Witness ==
  /\ last.op = "execute"
  /\ last.outcome.status = "rejected"
  /\ last.invoked # <<>>
  /\ has(commands, last.name)
  /\ getMetadata(commands, last.name) = Metadata1
  /\ MapGet(commands, last.name)[1].handler = last.invoked[1].handler
  /\ Len(commands) = 2

EndsWith(s, t) == Len(s) >= Len(t) /\ SubSeq(s, Len(s) - Len(t) + 1, Len(s)) = t

\* C13: the error of execute(n) for an absent n is the not-found message
\* that holds n between quotes, followed by all the names registered at the
\* call, in list() order, separated by ", " (nothing after the colon and the
\* space when the registry is empty).
C13_NotFoundCarriesNameAndListing ==
  (last.op = "execute" /\ ~has(commands, last.name)) =>
    LET text == last.outcome.error.text
        names == list(commands)
        prefix == "Command \"" \o last.name \o "\" not found. Available commands: "
    IN /\ last.outcome.status = "rejected"
       /\ last.outcome.error.t = "Error"
       /\ StartsWith(text, prefix)
       /\ \A i \in DOMAIN names : Contains(text, names[i])
       /\ Len(names) = 0 => text = prefix
       /\ Len(names) = 1 => text = prefix \o names[1]
       /\ Len(names) = 2 => text = prefix \o names[1] \o ", " \o names[2]
       /\ Len(names) > 2 => EndsWith(text, ", " \o names[Len(names)])

\* execute("ghost") on a registry that holds m:add, registered first, and add
C13_Witness ==
  /\ last.op = "execute"
  /\ last.name = "ghost"
  /\ list(commands) = <<"m:add", "add">>
  /\ last.outcome.error.text =
       "Command \"ghost\" not found. Available commands: m:add, add"

\* the kind of an error of execute(), read off the start of its message
KindNotFound(error) == StartsWith(error.text, "Command \"")

KindExecution(error) == StartsWith(error.text, "Error executing command \"")

\* C14: every failed execute fails with exactly one of two kinds of error,
\* told apart by the start of the message: NotFound, naming the requested
\* name, exactly when the name was absent at the lookup, and ExecutionError,
\* naming the requested name, exactly when a handler was found and failed.
\* When the handler fails with the NotFound of a nested execute of a
\* missing command, the outer call reports an ExecutionError naming the
\* outer command, whose message holds the inner not-found message.
C14_TwoErrorKinds ==
  /\ []((last.op \in {"execute", "settled"} /\ last.outcome.status = "rejected") =>
         LET e == last.outcome.error
         IN /\ e.t = "Error"
            /\ KindNotFound(e) # KindExecution(e)
            /\ KindNotFound(e) <=> IsNotFound(e, last.name)
            /\ KindExecution(e) <=> IsExecutionError(e, last.name)
            /\ KindNotFound(e) <=> last.invoked = <<>>
            /\ (last.invoked # <<>> /\ last.invoked[1].handler = "callMissing") =>
                 /\ IsExecutionError(e, "add")
                 /\ ~IsNotFound(e, "ghost")
                 /\ Contains(e.text, "Command \"ghost\" not found."))
  /\ [][last'.op = "execute" =>
          /\ ~has(commands, last'.name) =>
               /\ last'.outcome.status = "rejected"
               /\ KindNotFound(last'.outcome.error)
          /\ has(commands, last'.name) =>
               /\ last'.invoked # <<>>
               /\ last'.outcome.status = "rejected" =>
                    KindExecution(last'.outcome.error)]_vars

\* the handler of "add" returned the promise of execute("ghost"), and the
\* outer execute has failed with an ExecutionError around the NotFound
C14_Witness ==
  /\ last.op = "settled"
  /\ last.name = "add"
  /\ last.invoked[1].handler = "callMissing"
  /\ last.outcome.status = "rejected"
  /\ last.outcome.error.text =
       "Error executing command \"add\": Command \"ghost\" not found. Available commands: add"

\* execs without its i-th entry
Without(seq, i) ==
  [j \in 1..(Len(seq) - 1) |-> IF j < i THEN seq[j] ELSE seq[j + 1]]

\* C15: with any number of execute calls in flight, on the same or on
\* different names, each call of a registered name invokes its handler
\* exactly once, with its own arguments, at the call itself (it does not
\* wait for the calls in flight), and becomes one more call in flight even
\* when an identical call is already in flight; a call that settles
\* settles with the outcome of its own invocation and leaves the other
\* calls in flight.
C15_ConcurrentCallsAreIndependent ==
  /\ [](\A i \in DOMAIN execs :
          execs[i].invoked = <<[handler |-> execs[i].invoked[1].handler,
                                args |-> execs[i].args]>>)
  /\ [][/\ (last'.op = "execute" /\ has(commands, last'.name)) =>
            /\ last'.invoked =
                 <<[handler |-> MapGet(commands, last'.name)[1].handler,
                    args |-> last'.args]>>
            /\ last'.outcome.status = "pending"
            /\ Len(execs') = Len(execs) + 1
            /\ SubSeq(execs', 1, Len(execs)) = execs
            /\ execs'[Len(execs')].invoked = last'.invoked
        /\ last'.op = "settled" =>
            \E i \in DOMAIN execs :
              /\ execs' = Without(execs, i)
              /\ last'.name = execs[i].name
              /\ last'.invoked = execs[i].invoked
              /\ last'.settled[1] \in Settlements(execs[i])
              /\ last'.outcome = executeResume(last'.name, last'.settled[1])
              /\ (last'.outcome.status = "fulfilled"
                    /\ last'.invoked[1].handler = "subtract") =>
                   last'.outcome.value =
                     Num(execs[i].args[1] - execs[i].args[2])
              /\ (last'.outcome.status = "fulfilled"
                    /\ last'.invoked[1].handler = "fetchData") =>
                   last'.outcome.value =
                     Str("Async: " \o ToString(execs[i].args[1]))]_vars

\* of two identical calls in flight one has settled with its own result
\* and the other is still in flight
C15_Witness ==
  /\ last.op = "settled"
  /\ last.outcome = Fulfilled(Str("Async: 3"))
  /\ Len(execs) = 1
  /\ execs[1].name = last.name
  /\ execs[1].args = last.args
  /\ execs[1].invoked = last.invoked

\* the entry of "m:add" a handler's register or plugin call leaves behind
OtherRegistered(before, after) ==
  /\ MapGet(after, "m:add") = <<[handler |-> "subtract", metadata |-> <<>>]>>
  /\ MapGet(after, "add") = MapGet(before, "add")
  /\ list(after) = IF has(before, "m:add") THEN list(before)
                   ELSE Append(list(before), "m:add")

\* C16: a handler may call register, unregister, plugin, clear or execute
\* of the registry while it runs, on another name or on its own: after the
\* call of execute the registry holds exactly what the handler's calls
\* made of it (and is unchanged when the handler made none, or only a
\* nested execute), no name is ever listed twice, and the enclosing
\* execute settles with the handler's own outcome: its return value, also
\* when the handler removed or replaced its own entry, its failure wrapped
\* in an ExecutionError, or the outcome of the nested execute it returned.
C16_HandlersMayUseRegistry ==
  /\ [](NoDuplicates(list(commands)))
  /\ [][/\ (last'.op = "execute" /\ has(commands, last'.name)) =>
            LET h == MapGet(commands, last'.name)[1].handler
            IN /\ last'.invoked = <<[handler |-> h, args |-> last'.args]>>
               /\ h \in {"registerOther", "installPlugin"} =>
                    /\ OtherRegistered(commands, commands')
                    /\ last'.outcome.status = "pending"
               /\ h = "replaceSelf" =>
                    /\ MapGet(commands', "add") =
                         <<[handler |-> "subtract", metadata |-> <<>>]>>
                    /\ MapGet(commands', "m:add") = MapGet(commands, "m:add")
                    /\ list(commands') = list(commands)
                    /\ last'.outcome.status = "pending"
               /\ h = "unregisterSelf" =>
                    /\ ~has(commands', "add")
                    /\ MapGet(commands', "m:add") = MapGet(commands, "m:add")
                    /\ list(commands') =
                         SelectSeq(list(commands), LAMBDA n : n # "add")
                    /\ last'.outcome.status = "pending"
               /\ h = "clearThenThrow" =>
                    /\ commands' = <<>>
                    /\ last'.outcome =
                         Rejected("Error executing command \"add\": after clear")
               /\ h \in Handlers \cup {"callOther", "callMissing"} =>
                    commands' = commands
               /\ (h = "callOther" /\ has(commands, "m:add")) =>
                    last'.inner =
                      <<[name |-> "m:add",
                         invoked |-> <<[handler |-> MapGet(commands, "m:add")[1].handler,
                                        args |-> last'.args]>>]>>
        /\ last'.op = "settled" =>
            /\ commands' = commands
            /\ last'.invoked[1].handler \in
                 {"registerOther", "installPlugin", "replaceSelf", "unregisterSelf"} =>
                 last'.outcome = Fulfilled(Str("done"))
            /\ last'.invoked[1].handler = "callOther" =>
                 \/ last'.outcome = Fulfilled(Num(last'.args[1] - last'.args[2]))
                 \/ last'.outcome = Fulfilled(Str("Async: " \o ToString(last'.args[1])))
                 \/ /\ last'.outcome.status = "rejected"
                    /\ StartsWith(last'.outcome.error.text,
                                  "Error executing command \"add\": ")
                    /\ \/ Contains(last'.outcome.error.text,
                                    "Error executing command \"m:add\": ")
                       \/ Contains(last'.outcome.error.text,
                                    "Command \"m:add\" not found.")]_vars

\* a handler has unregistered its own command and its execute has resolved
\* with the handler's return value all the same
C16_Witness ==
  /\ last.op = "settled"
  /\ last.name = "add"
  /\ last.invoked[1].handler = "unregisterSelf"
  /\ last.outcome = Fulfilled(Str("done"))
  /\ ~has(commands, "add")
  /\ has(commands, "m:add")

\* C17: register, plugin, unregister and clear take effect in one step:
\* the state after the call holds the whole effect (every command of a
\* plugin batch, no entry after clear), so no state with part of it exists
\* for another operation to see, and none of them is ever in flight; only
\* an execute adds to the calls in flight.  While an execute is in flight
\* each of the other operations can run, and it leaves the calls in flight
\* as they are.  (has, getMetadata, list, getAll and help are functions of
\* the mapping at the moment of the call.)
C17_OnlyExecuteSuspends ==
  /\ [](execs # <<>> =>
         /\ ENABLED (Register("add", "fetchData", <<>>) /\ UNCHANGED hist)
         /\ ENABLED (\E o \in PairPluginObjects : Plugin("m", o) /\ UNCHANGED hist)
         /\ \A n \in DirectNames : ENABLED (Unregister(n) /\ UNCHANGED hist)
         /\ ENABLED (Clear /\ UNCHANGED hist))
  /\ [](last.op = "plugin" =>
         \A i \in DOMAIN last.entries :
           /\ has(commands, CompositeName(last, i))
           /\ MapGet(commands, CompositeName(last, i))[1].handler =
                last.entries[i].value.handler)
  /\ [][/\ Len(execs') > Len(execs) => last'.op = "execute"
        /\ last'.op \in {"register", "plugin", "unregister", "clear"} =>
             execs' = execs
        /\ last'.op = "register" =>
             MapGet(commands', last'.name) =
               <<[handler |-> last'.handler, metadata |-> last'.metadata]>>
        /\ last'.op = "unregister" => ~has(commands', last'.name)
        /\ last'.op = "clear" => commands' = <<>>]_vars

\* a plugin batch of two commands was installed while an execute is in flight
C17_Witness ==
  /\ last.op = "plugin"
  /\ Len(last.entries) = 2
  /\ Len(execs) = 1
  /\ has(commands, "m:add")
  /\ has(commands, "m:1")

\* C18: in every reachable state getAll() has exactly one record per
\* registered name, in the order of list(), and the metadata of each record
\* is what getMetadata returns for its name in that state.
C18_GetAllFollowsList ==
  /\ Len(getAll(commands)) = Len(list(commands))
  /\ \A i \in DOMAIN getAll(commands) :
       /\ getAll(commands)[i].name = list(commands)[i]
       /\ getAll(commands)[i].metadata =
            getMetadata(commands, list(commands)[i])
  /\ \A n \in QueryNames :
       Cardinality({i \in DOMAIN getAll(commands) : getAll(commands)[i].name = n})
         = IF has(commands, n) THEN 1 ELSE 0

\* two commands, the first with metadata and the second without, the
\* first one registered under the name that sorts last
C18_Witness ==
  /\ list(commands) = <<"m:add", "add">>
  /\ getAll(commands) =
       <<[name |-> "m:add", metadata |-> Metadata1],
         [name |-> "add", metadata |-> <<>>]>>

\* the registry after register(p:s, handler, metadata) called once for each
\* entry of es, in the order of es, with no metadata for a bare handler
RECURSIVE RegisterEach(_, _, _)
RegisterEach(cmds, p, es) ==
  IF es = <<>> THEN cmds
  ELSE RegisterEach(
         register(cmds, p \o ":" \o es[1].key, es[1].value.handler,
                  IF es[1].value.bare THEN <<>> ELSE es[1].value.metadata).commands,
         p, Tail(es))

\* what unregister, register, execute and list see of the names a plugin
\* installed
TreatedAsRegistered(cmds, l) ==
  \A n \in Composites(l) :
    /\ unregister(cmds, n).removed
    /\ executeStart(cmds, n, <<5, 3>>).invoked =
         <<[handler |-> MapGet(cmds, n)[1].handler, args |-> <<5, 3>>]>>
    /\ ~has(unregister(cmds, n).commands, n)
    /\ register(cmds, n, "subtract", <<>>).warnings = 1
    /\ list(register(cmds, n, "subtract", <<>>).commands) = list(cmds)
    /\ \E i \in DOMAIN list(cmds) : list(cmds)[i] = n

\* C19 as stated: plugin(p, cmds) leaves the registry that register("p:s",
\* handler, metadata), called once per entry in the order the entries were
\* given, leaves.
C19_Original ==
  [][last'.op = "plugin" =>
       /\ commands' = RegisterEach(commands, last'.name, last'.entries)
       /\ TreatedAsRegistered(commands', last')]_vars

\* C19 (amended): plugin(p, cmds) leaves the registry that register("p:s",
\* handler, metadata), called once per entry in the order Object.entries
\* enumerates cmds (integer-like keys first, ascending, then the other keys
\* as given), leaves: no metadata for a bare handler, the entry's own for
\* a {handler, metadata} entry.  Nothing else is recorded, so unregister,
\* an overwriting register, execute and list treat the composite names as
\* they treat any registered name.
C19_PluginIsRegisterPerEntry ==
  [][last'.op = "plugin" =>
       /\ commands' =
            RegisterEach(commands, last'.name, ObjectEntries(last'.entries))
       /\ TreatedAsRegistered(commands', last')
       /\ \A i \in DOMAIN last'.entries :
            MapGet(commands', CompositeName(last', i)) =
              <<[handler |-> last'.entries[i].value.handler,
                 metadata |-> IF last'.entries[i].value.bare THEN <<>>
                              ELSE last'.entries[i].value.metadata]>>]_vars

\* a plugin of a bare handler and a {handler, metadata} pair has overwritten
\* one command and added another
C19_Witness ==
  /\ last.op = "plugin"
  /\ Len(last.entries) = 2
  /\ last.entries[1].value.bare
  /\ ~last.entries[2].value.bare
  /\ last.warnings = 1
  /\ getMetadata(commands, CompositeName(last, 1)) = <<>>
  /\ getMetadata(commands, CompositeName(last, 2)) = Metadata2

\* C20 as stated: help(x) returns the not-found text that quotes x for
\* every x that is not registered, and help always returns a text.
C20_Original ==
  last.op = "help" =>
    /\ last.text # ""
    /\ (last.args # <<>> /\ ~has(commands, last.args[1])) =>
         last.text = "Command \"" \o last.args[1] \o "\" not found."

\* C20 (amended): help(x) returns the not-found text that quotes x for
\* every non-empty x that is not registered; help("") is answered as
\* help() is, with the no-commands message or the list of all commands;
\* and help returns a text, never a failure, for every argument in every
\* state of the registry.
C20_HelpOfAbsentName ==
  last.op = "help" =>
    /\ last.text # ""
    /\ (last.args # <<>> /\ last.args[1] # "" /\ ~has(commands, last.args[1])) =>
         /\ last.text = "Command \"" \o last.args[1] \o "\" not found."
         /\ Contains(last.text, last.args[1])
    /\ last.args = <<"">> =>
         /\ last.text = help(commands, <<>>)
         /\ ~Contains(last.text, "not found")
         /\ commands = <<>> => last.text = "No commands registered."
         /\ commands # <<>> => StartsWith(last.text, "Available commands:")

\* help("ghost") on a registry that holds two commands
C20_Witness ==
  /\ last.op = "help"
  /\ last.args = <<"ghost">>
  /\ Len(commands) = 2
  /\ last.text = "Command \"ghost\" not found."

\* the description of the command n, when its metadata has one
DescriptionOf(cmds, n) ==
  IF getMetadata(cmds, n) = <<>> THEN <<>>
  ELSE getMetadata(cmds, n)[1].description

\* the text help() is to return for a non-empty registry, given which
\* commands show their description
ListingText(cmds, Shown(_)) ==
  "Available commands:\n\n"
    \o Join([i \in DOMAIN list(cmds) |->
               "  " \o list(cmds)[i]
                 \o (IF Shown(list(cmds)[i])
                     THEN " - " \o DescriptionOf(cmds, list(cmds)[i])[1] ELSE "")
                 \o "\n"], "")

\* C21 as stated: help() returns the no-commands message exactly when the
\* registry is empty, and otherwise the header and one line per command in
\* list() order, the name followed by " - <description>" exactly when the
\* metadata has a description.
C21_Original ==
  (last.op = "help" /\ last.args = <<>>) =>
    /\ last.text = "No commands registered." <=> list(commands) = <<>>
    /\ list(commands) # <<>> =>
         last.text =
           ListingText(commands, LAMBDA n : DescriptionOf(commands, n) # <<>>)

\* C21 (amended): help() returns the no-commands message exactly when the
\* registry is empty, and otherwise the header and one line per command in
\* list() order, the name followed by " - <description>" exactly when the
\* metadata has a description that is not the empty string.
C21_HelpListsAllCommands ==
  (last.op = "help" /\ last.args = <<>>) =>
    /\ last.text = "No commands registered." <=> list(commands) = <<>>
    /\ list(commands) # <<>> =>
         last.text =
           ListingText(commands,
                       LAMBDA n : /\ DescriptionOf(commands, n) # <<>>
                                  /\ DescriptionOf(commands, n)[1] # "")

\* help() of two commands, the first with a description, the second without
C21_Witness ==
  /\ last.op = "help"
  /\ last.args = <<>>
  /\ list(commands) = <<"m:add", "add">>
  /\ last.text = "Available commands:\n\n  m:add - Add two numbers\n  add\n"

\* the text help(n) is to return for a command with metadata md, given
\* whether the description and the usage are shown
CommandText(n, md, descShown, usageShown) ==
  "Command: " \o n \o "\n"
    \o (IF descShown THEN "Description: " \o md.description[1] \o "\n" ELSE "")
    \o (IF usageShown THEN "Usage: " \o md.usage[1] \o "\n" ELSE "")
    \o (IF md.examples # <<>> /\ md.examples[1] # <<>>
        THEN "Examples:\n"
               \o Join([i \in DOMAIN md.examples[1] |->
                          "  " \o md.examples[1][i] \o "\n"], "")
        ELSE "")

\* C22 as stated: help(n) of a registered n without metadata returns the
\* no-metadata text naming n; with metadata it returns the command-name
\* line, a description line iff a description is set, a usage line iff a
\* usage is set, and the examples block, one indented line per example,
\* iff the examples are a non-empty sequence, in this order.
C22_Original ==
  (last.op = "help" /\ last.args # <<>> /\ last.args[1] # ""
     /\ has(commands, last.args[1])) =>
    LET n == last.args[1]
        md == getMetadata(commands, n)
    IN /\ md = <<>> => last.text = "Command: " \o n \o "\nNo metadata available."
       /\ md # <<>> =>
            last.text = CommandText(n, md[1], md[1].description # <<>>,
                                    md[1].usage # <<>>)

\* C22 (amended): help(n) of a registered n without metadata returns the
\* no-metadata text naming n; with metadata it returns the command-name
\* line, a description line iff the description is set and not the empty
\* string, a usage line iff the usage is set and not the empty string, and
\* the examples block, one indented line per example, iff the examples are
\* a non-empty sequence, in this order.
C22_HelpOfRegisteredName ==
  (last.op = "help" /\ last.args # <<>> /\ last.args[1] # ""
     /\ has(commands, last.args[1])) =>
    LET n == last.args[1]
        md == getMetadata(commands, n)
    IN /\ md = <<>> => last.text = "Command: " \o n \o "\nNo metadata available."
       /\ md # <<>> =>
            last.text =
              CommandText(n, md[1],
                          md[1].description # <<>> /\ md[1].description[1] # "",
                          md[1].usage # <<>> /\ md[1].usage[1] # "")

\* help("add") of a command with a description, a usage and one example
C22_Witness ==
  /\ last.op = "help"
  /\ last.args = <<"add">>
  /\ getMetadata(commands, "add") = Metadata1
  /\ last.text =
       "Command: add\nDescription: Add two numbers\nUsage: calculate <a> <b>\nExamples:\n  calculate 5 3\n"

\* C23: register(n, h, m) and plugin(p, cmds) never fail, for any name (the
\* empty string, a name with a colon), any handler value and any metadata,
\* in any state of the registry: nothing is thrown, and the entry (every
\* entry of the plugin object) is inserted or overwritten.
C23_RegistrationNeverFails ==
  /\ last.op = "register" =>
       /\ ~last.threw
       /\ MapGet(commands, last.name) =
            <<[handler |-> last.handler, metadata |-> last.metadata]>>
  /\ last.op = "plugin" =>
       /\ ~last.threw
       /\ \A i \in DOMAIN last.entries : has(commands, CompositeName(last, i))

\* names to ask for, registered or not
ProbeNames == {"add", "m:add", "ghost", ""}

Listed(cmds, n) == \E i \in DOMAIN list(cmds) : list(cmds)[i] = n

\* C24: for a name that is not registered, in every state of the registry,
\* has returns false, getMetadata returns undefined, unregister returns
\* false and changes nothing, and help returns a text; none of them fails.
C24_AbsenceIsNotAnError ==
  /\ [](\A n \in ProbeNames :
          ~Listed(commands, n) =>
            /\ has(commands, n) = FALSE
            /\ getMetadata(commands, n) = <<>>
            /\ unregister(commands, n) = [commands |-> commands, removed |-> FALSE]
            /\ help(commands, <<n>>) # ""
            /\ n # "" => help(commands, <<n>>) = "Command \"" \o n \o "\" not found.")
  /\ [][/\ (last'.op = "unregister" /\ ~Listed(commands, last'.name)) =>
            /\ last'.removed = FALSE
            /\ ~last'.threw
            /\ commands' = commands
        /\ (last'.op = "help" /\ last'.args # <<>>
              /\ ~Listed(commands, last'.args[1])) =>
            /\ last'.text # ""
            /\ ~last'.threw
            /\ last'.outcome = NoOutcome]_vars

\* unregister of an absent name returned false next to a command that has
\* metadata
C24_Witness ==
  /\ last.op = "unregister"
  /\ ~last.removed
  /\ ~has(commands, last.name)
  /\ Len(commands) = 1
  /\ commands[1].value.metadata = Metadata1

\* the handler invocation of the call in flight has not settled yet
HandlerPending == execs # <<>> /\ execs[1].awaited.type = "promise"

\* the handler invocation of the call in flight has settled
HandlerSettled == execs # <<>> /\ execs[1].awaited.type # "promise"

\* C25: while the handler's invocation is pending the execute stays
\* pending, whatever else is called (register, unregister and clear of its
\* name included): no step settles or drops it.  An execute settles only
\* by resuming on what its handler's invocation settled with, and its
\* outcome is that value, or the ExecutionError around that failure.  Once
\* the handler's invocation has settled the execute eventually settles.
C25_SettlesOnlyAfterHandler ==
  /\ [][/\ HandlerPending =>
             /\ execs' # <<>>
             /\ execs'[1].name = execs[1].name
             /\ execs'[1].invoked = execs[1].invoked
             /\ last'.op # "settled"
        /\ HandlerSettled =>
             \/ execs' = execs
             \/ /\ execs' = <<>>
                /\ last'.op = "settled"
                /\ last'.invoked = execs[1].invoked
                /\ last'.settled = <<execs[1].awaited>>
                /\ last'.outcome =
                     IF execs[1].awaited.type = "value"
                     THEN Fulfilled(execs[1].awaited.value)
                     ELSE Rejected(ExecutionErrorMessage(execs[1].name,
                                                         execs[1].awaited.error))
        /\ last'.op = "settled" => HandlerSettled]_vars
  /\ (HandlerSettled ~> (execs = <<>> /\ last.op = "settled"))

\* the command was unregistered while its handler was pending, the
\* handler's promise then rejected, and the execute has settled with the
\* ExecutionError
C25_Witness ==
  /\ last.op = "settled"
  /\ execs = <<>>
  /\ ~has(commands, "add")
  /\ last.invoked[1].handler = "fetchData"
  /\ last.outcome = Rejected("Error executing command \"add\": fetch failed")

\* the metadata values an entry can carry
TwinMetadatas == {<<>>, Metadata1, Metadata2}

\* the registries that hold the same names and handlers in the same order
\* as cmds and differ from it at most in the metadata of their entries
Twins(cmds) ==
  { [i \in DOMAIN cmds |->
       [key |-> cmds[i].key,
        value |-> [handler |-> cmds[i].value.handler, metadata |-> f[i]]]] :
    f \in [DOMAIN cmds -> TwinMetadatas] }

\* the outcomes execute(name, ...args) on cmds can settle with
ExecuteOutcomes(cmds, name, args) ==
  LET r == executeStart(cmds, name, args)
  IN IF r.outcome.status # "pending"
     THEN {r.outcome}
     ELSE {executeResume(name, s) :
             s \in Settlements([invoked |-> r.invoked, awaited |-> r.awaited])}

\* C26: metadata never affects dispatch: on every registry that differs
\* from the current one only in the metadata of its entries, list and has
\* return the same results, and the execute call just made finds the same
\* handler, invokes it with the same arguments and yields the same outcome.
C26_MetadataNeverAffectsDispatch ==
  \A t \in Twins(commands) :
    /\ list(t) = list(commands)
    /\ \A n \in QueryNames : has(t, n) = has(commands, n)
    /\ last.op = "execute" =>
         LET r == executeStart(t, last.name, last.args)
         IN /\ r.invoked = last.invoked
            /\ r.outcome = last.outcome
            /\ ExecuteOutcomes(t, last.name, last.args) =
                 ExecuteOutcomes(commands, last.name, last.args)

\* the operations that change the mapping
MutatingOps == {"register", "plugin", "unregister", "clear"}

\* C27: execute resolves the name once, when it is called.  A call of a
\* registered name invokes the handler the mapping holds at that moment; a
\* later register, plugin, unregister or clear leaves every call in flight
\* as it is, and the call settles with what the handler that was looked up
\* settled with, whatever the mapping holds by then.  A call of an absent
\* name is rejected with NotFound at the call and leaves nothing in flight
\* that a later registration could complete.
C27_NameResolvedOnceAtCall ==
  [][/\ last'.op \in MutatingOps => execs' = execs
     /\ last'.op = "execute" =>
          IF has(commands, last'.name)
          THEN last'.invoked =
                 <<[handler |-> MapGet(commands, last'.name)[1].handler,
                    args |-> last'.args]>>
          ELSE /\ last'.invoked = <<>>
               /\ last'.outcome =
                    Rejected(NotFoundMessage(last'.name, commands))
               /\ execs' = execs
     /\ last'.op = "settled" =>
          \E i \in DOMAIN execs :
            /\ last'.name = execs[i].name
            /\ last'.invoked = execs[i].invoked
            /\ last'.settled[1] \in
                 Settlements([invoked |-> execs[i].invoked,
                              awaited |-> HandlerCall(execs[i].invoked[1].handler,
                                                      execs[i].args)])
            /\ last'.outcome = executeResume(execs[i].name, last'.settled[1])]_vars

\* a call of "m:add" found the asynchronous handler; the name was then
\* overwritten with another handler (or removed), and the call has settled
\* with the result of the handler it had looked up
C27_Witness ==
  /\ last.op = "settled"
  /\ last.name = "m:add"
  /\ last.invoked = <<[handler |-> "fetchData", args |-> <<5, 3>>]>>
  /\ last.outcome = Fulfilled(Str("Async: 5"))
  /\ has(commands, "m:add")
  /\ MapGet(commands, "m:add")[1].handler = "subtract"

\* n was removed (by unregister or clear) and has not been registered since
RemovedAndGone(n) == hist[n] # <<>> /\ ~hist[n][1].reborn

\* C28: a name that was removed is absent, and registering it again puts
\* it at the end of list() and getAll(), behind the names that were there,
\* with exactly the handler and metadata of the new registration; a
\* registration keeps the position of its name only when it overwrites a
\* name that is present.
C28_ReRegisteredNameGoesToEnd ==
  /\ [](\A n \in ReRegisterNames : RemovedAndGone(n) => ~has(commands, n))
  /\ [][\A n \in ReRegisterNames :
          (last'.op = "register" /\ last'.name = n) =>
            /\ RemovedAndGone(n) =>
                 /\ list(commands') = Append(list(commands), n)
                 /\ getAll(commands') =
                      Append(getAll(commands),
                             [name |-> n, metadata |-> last'.metadata])
                 /\ MapGet(commands', n) =
                      <<[handler |-> last'.handler,
                         metadata |-> last'.metadata]>>
            /\ (list(commands') = list(commands)) <=> has(commands, n)]_vars

\* "add" was first in the registry with a description, was unregistered
\* and registered again without metadata: it now comes last, after the
\* name that stayed, and has no metadata
C28_Witness ==
  /\ last.op = "register"
  /\ last.name = "add"
  /\ hist["add"] # <<>>
  /\ hist["add"][1].reborn
  /\ hist["add"][1].position = 1
  /\ hist["add"][1].metadata = Metadata1
  /\ hist["add"][1].handler = "fetchData"
  /\ Len(commands) = 2
  /\ commands[2] = [key |-> "add",
                    value |-> [handler |-> "subtract", metadata |-> <<>>]]

\* the names the queries are asked about: the probes and every name held
QueriedNames == ProbeNames \cup {commands[i].key : i \in DOMAIN commands}

\* the text help() returns on a registry without commands
NoCommandsText == "No commands registered."

\* C29: in every reachable state has(n) is true exactly when n occurs in
\* list(), getMetadata(n) is present only if has(n) is true, list() and
\* getAll() have the same length, and help() returns the no-commands
\* message exactly when list() is empty; a help() call just made returned
\* that text.
C29_QueriesAgree ==
  /\ \A n \in QueriedNames :
       /\ has(commands, n) <=>
            \E i \in DOMAIN list(commands) : list(commands)[i] = n
       /\ getMetadata(commands, n) # <<>> => has(commands, n)
  /\ Len(list(commands)) = Len(getAll(commands))
  /\ (help(commands, <<>>) = NoCommandsText) <=> (list(commands) = <<>>)
  /\ (last.op = "help" /\ last.args = <<>>) =>
       /\ last.text = help(commands, <<>>)
       /\ (last.text = NoCommandsText) <=> (list(commands) = <<>>)

\* help() was called on a registry of two commands, one with metadata and
\* one without, and returned a listing
C29_Witness ==
  /\ last.op = "help"
  /\ last.args = <<>>
  /\ list(commands) = <<"m:add", "add">>
  /\ getMetadata(commands, "add") = <<>>
  /\ getMetadata(commands, "m:add") # <<>>
  /\ ~has(commands, "ghost")
  /\ last.text # NoCommandsText

\* the operations on one name
SingleNameOps == {"register", "unregister", "execute", "settled"}

\* the names other than n that the registry holds before or after a step,
\* and the names asked about
OtherNames(n) ==
  (QueryNames \cup {commands[i].key : i \in DOMAIN commands}
              \cup {commands'[i].key : i \in DOMAIN commands'}) \ {n}

\* the names of a list other than n, in their order
Others(names, n) == SelectSeq(names, LAMBDA x : x # n)

QueryOps == {"has", "getMetadata", "list", "getAll", "help"}

\* C31: has, getMetadata, list, getAll and help return what the mapping
\* holds and leave it (names, handlers, metadata and order) and the calls
\* in flight as they were; an execute that fails its lookup with NotFound
\* leaves the mapping unchanged as well.
C31_QueriesAreReadOnly ==
  [][/\ last'.op \in QueryOps => commands' = commands /\ execs' = execs
     /\ last'.op = "has" => last'.found = has(commands', last'.name)
     /\ last'.op = "getMetadata" =>
          last'.metadata = getMetadata(commands', last'.name)
     /\ last'.op = "list" => last'.names = list(commands')
     /\ last'.op = "getAll" => last'.all = getAll(commands')
     /\ last'.op = "help" => last'.text = help(commands', last'.args)
     /\ (last'.op = "execute" /\ last'.outcome.status = "rejected"
           /\ IsNotFound(last'.outcome.error, last'.name)) =>
          commands' = commands /\ execs' = execs]_vars

\* getMetadata("ghost") was asked of a registry of two commands that does
\* not hold "ghost": nothing was found and the two commands are there
C31_Witness ==
  /\ last.op = "getMetadata"
  /\ last.name = "ghost"
  /\ last.metadata = <<>>
  /\ last.sizeBefore = 2
  /\ list(commands) = <<"m:add", "add">>

\* C32: register emits the overwrite diagnostic exactly when the name is
\* present at the call, and so never for a name that was unregistered or
\* cleared and has not been registered since; the call does not throw, and
\* with or without the diagnostic the name holds the new handler and
\* metadata afterwards.
C32_WarnsExactlyOnOverwrite ==
  [][last'.op = "register" =>
       /\ last'.warnings \in {0, 1}
       /\ (last'.warnings = 1) <=> has(commands, last'.name)
       /\ RemovedAndGone(last'.name) => last'.warnings = 0
       /\ ~last'.threw
       /\ MapGet(commands', last'.name) =
            <<[handler |-> last'.handler, metadata |-> last'.metadata]>>]_vars

\* "add" was unregistered and then registered again: no diagnostic, and the
\* new handler is in place
C32_Witness ==
  /\ last.op = "register"
  /\ last.name = "add"
  /\ last.warnings = 0
  /\ hist["add"] # <<>>
  /\ hist["add"][1].reborn
  /\ hist["add"][1].handler = "subtract"
  /\ MapGet(commands, "add") =
       <<[handler |-> "fetchData", metadata |-> Metadata1]>>
  /\ has(commands, "m:add")

\* the names a register or plugin call writes, and the entry it writes
\* under each
Written(l) ==
  IF l.op = "plugin"
  THEN {[name |-> l.name \o ":" \o l.entries[i].key,
         entry |-> [handler |-> l.entries[i].value.handler,
                    metadata |-> IF l.entries[i].value.bare THEN <<>>
                                 ELSE l.entries[i].value.metadata]] :
          i \in DOMAIN l.entries}
  ELSE {[name |-> l.name,
         entry |-> [handler |-> l.handler, metadata |-> l.metadata]]}

\* C33: the composite name is the plain concatenation of the plugin name,
\* ":" and the short name, so plugin "a:b" with entry "c", plugin "a" with
\* entry "b:c" and a direct register of "a:b:c" write the same name.  No
\* name occurs twice in list(); a plugin or register call leaves under each
\* name it writes the entry it wrote (last write wins), in the place the
\* name had when it was present, and adds one entry per name that was
\* absent.
C33_CollidingNamesLastWriteWins ==
  /\ [](NoDuplicates(list(commands)))
  /\ [][last'.op \in {"plugin", "register"} =>
          /\ \A w \in Written(last') :
               /\ MapGet(commands', w.name) = <<w.entry>>
               /\ has(commands, w.name) =>
                    Position(list(commands'), w.name) =
                      Position(list(commands), w.name)
          /\ Len(commands') = Len(commands)
               + Cardinality({w.name : w \in Written(last')}
                             \ {commands[i].key : i \in DOMAIN commands})
          /\ last'.warnings =
               Cardinality({w \in Written(last') : has(commands, w.name)})]_vars

\* plugin "a" with the one entry "b:c" was installed over a registry that
\* held one name, which it replaced: the name is the one plugin "a:b"
\* gives its entry "c"
C33_Witness ==
  /\ last.op = "plugin"
  /\ last.name = "a"
  /\ last.entries = <<[key |-> "b:c",
                       value |-> [bare |-> FALSE, handler |-> "fetchData",
                                  metadata |-> Metadata2]]>>
  /\ last.sizeBefore = 1
  /\ last.warnings = 1
  /\ list(commands) = <<"a:b" \o ":" \o "c">>
  /\ MapGet(commands, CollideName) =
       <<[handler |-> "fetchData", metadata |-> Metadata2]>>

\* the name is registered with a handler that is not callable
HeldNonCallable(cmds, n) ==
  has(cmds, n) /\ MapGet(cmds, n)[1].handler \in NonCallableHandlers

\* C34: register (directly or through plugin) accepts a handler that is
\* not callable: the call does not throw and has(name) is true afterwards.
\* Every execute of such a name is rejected at the call with an
\* ExecutionError naming the command, not with NotFound, invokes no
\* handler code that could settle later, and leaves the entry registered.
C34_MalformedSurfacesAtExecution ==
  [][/\ (last'.op = "register" /\ last'.handler \in NonCallableHandlers) =>
          /\ ~last'.threw
          /\ HeldNonCallable(commands', last'.name)
     /\ last'.op = "plugin" =>
          \A i \in DOMAIN last'.entries :
            last'.entries[i].value = NumberValue =>
              /\ ~last'.threw
              /\ HeldNonCallable(commands', CompositeName(last', i))
     /\ (last'.op = "execute" /\ HeldNonCallable(commands, last'.name)) =>
          /\ last'.outcome.status = "rejected"
          /\ IsExecutionError(last'.outcome.error, last'.name)
          /\ ~IsNotFound(last'.outcome.error, last'.name)
          /\ execs' = execs
          /\ commands' = commands
          /\ HeldNonCallable(commands', last'.name)]_vars

\* "add" was registered with a value that is no function and then
\* executed: the call failed with the ExecutionError and "add" is still
\* registered
C34_Witness ==
  /\ last.op = "execute"
  /\ last.name = "add"
  /\ last.outcome =
       Rejected("Error executing command \"add\": command.handler is not a function")
  /\ has(commands, "add")
  /\ MapGet(commands, "add")[1].handler = "notCallable"

NodeEnvUnset ==
  ~env.process \/ ~env.hasEnv \/ env.vars["NODE_ENV"] = <<>>

\* C36: for every value of NODE_ENV at most one of isDevelopment(),
\* isProduction() and isTest() is true, and when NODE_ENV is unset
\* isDevelopment() is true and the other two are false.  The calls just
\* made returned these values.
C36_AtMostOneMode ==
  /\ ~(isDevelopment(env) /\ isProduction(env))
  /\ ~(isDevelopment(env) /\ isTest(env))
  /\ ~(isProduction(env) /\ isTest(env))
  /\ NodeEnvUnset =>
       isDevelopment(env) /\ ~isProduction(env) /\ ~isTest(env)
  /\ last.op = "isDevelopment" => last.found = isDevelopment(env)
  /\ last.op = "isProduction" => last.found = isProduction(env)
  /\ last.op = "isTest" => last.found = isTest(env)

\* isDevelopment() was called in a process whose environment has no
\* NODE_ENV and returned true
C36_Witness ==
  /\ last.op = "isDevelopment"
  /\ env.process
  /\ env.hasEnv
  /\ env.vars["NODE_ENV"] = <<>>
  /\ last.found

====
